---- MODULE Spec2Model ----
(***************************************************************************)
(* The transaction execution pipelines of the api-recipes repository.      *)
(*                                                                         *)
(* Every recipe walks the transaction list of an action in order and, per  *)
(* step, decides whether to skip it, prepares it (PATCH), signs it with    *)
(* the local wallet, submits it and polls its status.  The recipes differ  *)
(* in what they skip, in whether preparation is retried and in how the     *)
(* status polling ends.  The variants modelled here:                       *)
(*                                                                         *)
(*   "yields"          signAndSubmitTransactions, src/recipes/yields.ts    *)
(*                     lines 1192-1273 (local nonce offset)                *)
(*   "yieldsOld"       signAndSubmitTransactions, src/recipes/yields.ts    *)
(*                     lines 326-398 (earlier version, no nonce handling)  *)
(*   "perps"           processTransactions, src/unnamed/part_008 471-536   *)
(*   "signers"         main, src/recipes/stakekit-signers-stake.ts 149-250 *)
(*                     (fixed cross-chain delay, retried preparation)      *)
(*   "signersBalance"  main, src/unnamed/part_002 131-224 and              *)
(*                     src/recipes/stakekit-signers-stake.ts 452-545       *)
(*                     (cross-chain wait polls the locked balance)         *)
(*   "ethersStake"     main, src/recipes/ethers-stake.ts 200-279           *)
(*                     (prepared twice, around the gas prompt)             *)
(*                                                                         *)
(* Each await of the source is one step of the model; the answers of the   *)
(* API, of the wallet and of the user are drawn with \E.                   *)
(***************************************************************************)
EXTENDS Integers, Sequences, FiniteSets, TLC

\* Longest transaction list explored.
MaxTxs == 2

\* Largest nonce the server puts in an unsigned payload.
MaxNonce == 1

\* const maxAttempts = 60 (status polls per step in signAndSubmitTransactions)
maxAttempts == 60

\* for (let i = 0; i < 3; i++): preparation attempts per step
maxPrepareAttempts == 3

Variants == {"yields", "yieldsOld", "perps", "signers", "signersBalance", "ethersStake"}

\* The statuses a branch of some pipeline reads.  SIGNED, FAILED and
\* NOT_FOUND are read by no branch and are handled exactly like CREATED.
Statuses == {"CREATED", "BROADCASTED", "CONFIRMED", "SKIPPED"}

Networks == {"ethereum", "polygon"}

\* A step as the API returns it.  payload is what the step carries to sign:
\*   "absent"  no unsignedTransaction / signablePayload
\*   "plain"   a payload without a nonce field
\*   "nonce"   a payload whose nonce field is `nonce`
Transaction(s, n, p, k) == [status |-> s, network |-> n, payload |-> p, nonce |-> k]

\* The fields each variant reads range over all their values; a field the
\* variant never reads is held at one value.
TransactionsOf(v) ==
    IF v = "yields"
    THEN {Transaction(s, "ethereum", p, 0) : s \in Statuses, p \in {"absent", "plain"}}
         \cup {Transaction(s, "ethereum", "nonce", k) : s \in Statuses, k \in 0..MaxNonce}
    ELSE IF v \in {"yieldsOld", "perps"}
    THEN {Transaction(s, "ethereum", p, 0) : s \in Statuses, p \in {"absent", "plain"}}
    ELSE IF v \in {"ethersStake", "pendingActions"}
    THEN {Transaction(s, "ethereum", "plain", 0) : s \in Statuses}
    ELSE {Transaction(s, n, "plain", 0) : s \in Statuses, n \in Networks}

VARIABLES
    variant,        \* which recipe runs
    transactions,   \* the action's transaction list (ids are the positions)
    i,              \* loop index, 1-based: the step being processed
    pc,             \* "loop", "wait", "patch", "gas", "prepare", "sign", "submit", "poll",
                    \* "done", "threw"
    error,          \* which call threw: "none" or the failing stage
    nonceOffset,    \* let nonceOffset = 0 (yields)
    attempts,       \* let attempts = 0 (polls of the current step, yields)
    confirmed,      \* let confirmed = false (current step, yields)
    retry,          \* the retry loop's counter: failed preparation attempts of the step
    unsignedTransaction, \* let unsignedTransaction: "undefined", "null" or "set"
    lastTx,         \* network of the last submitted step, "null" before
    waited,         \* the cross-chain wait of the current step has completed
    lastStatus,     \* last status a poll of the current step returned ("none" before)
    warned,         \* the timeout warning was logged for the step just polled
    dots,           \* parity of the "." / "Pending..." lines written while polling the step
    signCount,      \* id -> calls of wallet.signTransaction / signTypedData
    submitCount,    \* id -> submit requests
    patchCount,     \* id -> prepare (PATCH) requests
    signedNonces,   \* the nonces placed in signed payloads, in signing order
    customSteps,    \* ids of the steps whose gas prompt was answered "custom"
    http,           \* one call of an HTTP helper: the response and what the call settles to
    proc,           \* one run of a recipe script: environment, main's end, log, exit
    flow,           \* one run of a main, as the data it puts into HTTP requests
    ask,            \* one call of promptForArguments
    sig,            \* one call of signTransaction
    pages,          \* one call of fetchAllYields or fetchAllMarkets
    exec            \* one call of executeAction (yields, perps) or executeTrade

\* The state of a pipeline run.
pipeline == <<variant, transactions, i, pc, error, nonceOffset, attempts, confirmed,
              retry, unsignedTransaction, lastTx, waited, lastStatus, warned, dots,
              signCount, submitCount, patchCount, signedNonces, customSteps>>

\* The state of what is modelled apart from the pipeline; no step of a
\* pipeline changes it.
aside == <<http, proc, flow, ask, sig, pages, exec>>

vars == <<pipeline, aside>>

Ids == 1..Len(transactions)

\* The locals of the pipeline as its loop is entered, with nothing yet
\* prepared, signed or submitted.
Start ==
    /\ i = 1
    /\ pc = "loop"
    /\ error = "none"
    /\ nonceOffset = 0
    /\ attempts = 0
    /\ confirmed = FALSE
    /\ retry = 0
    /\ unsignedTransaction = "undefined"
    /\ lastTx = "null"
    /\ waited = FALSE
    /\ lastStatus = "none"
    /\ warned = FALSE
    /\ dots = 0
    /\ signCount = [id \in Ids |-> 0]
    /\ submitCount = [id \in Ids |-> 0]
    /\ patchCount = [id \in Ids |-> 0]
    /\ signedNonces = <<>>
    /\ customSteps = {}

\* No helper call is being looked at.
NoCall == [state |-> "none"]

\* No script is being run.
NoRun ==
    [recipe |-> "none", missing |-> {}, stage |-> "none", outcome |-> "none",
     main |-> "pending", log |-> {}, requested |-> FALSE, prompted |-> FALSE,
     exited |-> FALSE, exitCode |-> 0]

\* No main is being followed.
NoFlow ==
    [recipe |-> "none", at |-> 0, additional |-> FALSE, validator |-> FALSE,
     left |-> 0, sent |-> {}]

\* promptForArguments has not been called.
NoAsk == [state |-> "none"]

\* signTransaction has not been called.
NoSig == [state |-> "none"]

\* No page is being fetched.
NoPages == [state |-> "none"]

\* No action is being executed.
NoExec == [state |-> "none"]

AsideIdle ==
    /\ http = NoCall
    /\ proc = NoRun
    /\ flow = NoFlow
    /\ ask = NoAsk
    /\ sig = NoSig
    /\ pages = NoPages
    /\ exec = NoExec

Init ==
    /\ variant \in Variants
    /\ \E n \in 0..MaxTxs : transactions \in [1..n -> TransactionsOf(variant)]
    /\ Start
    /\ AsideIdle

\* No pipeline is running.
PipelineIdle ==
    /\ variant = "yields"
    /\ transactions = <<>>
    /\ Start

\* Variant of Bump: the call is issued with the id of the first step.
BumpFirst(f, id) == [f EXCEPT ![1] = @ + 1]

\* One more call (prepare, sign or submit) issued for step id.
Bump(f, id) == [f EXCEPT ![id] = @ + 1]

history == <<signCount, submitCount, patchCount, signedNonces, customSteps>>
stepLocals == <<attempts, confirmed, retry, unsignedTransaction, waited, lastStatus, warned,
                dots>>

\* The locals of one loop iteration, as a new iteration starts.
FreshLocals ==
    /\ attempts' = 0
    /\ confirmed' = FALSE
    /\ retry' = 0
    /\ unsignedTransaction' = "undefined"
    /\ waited' = FALSE
    /\ lastStatus' = "none"
    /\ warned' = FALSE
    /\ dots' = 0

\* `continue`, or the end of the loop body: on to the next step.
NextStep ==
    /\ i' = i + 1
    /\ pc' = "loop"

\* Variant of Throw: the catch logs the error and the loop goes on.
ThrowSwallowed(stage) ==
    /\ error' = stage
    /\ i' = i + 1
    /\ pc' = "loop"

\* Variant of Throw: the failed call is made again.
ThrowRetrying(stage) ==
    /\ error' = stage
    /\ i' = i
    /\ pc' = pc

\* A throw that leaves the loop (rethrown by the catch, or caught by main).
Throw(stage) ==
    /\ pc' = "threw"
    /\ error' = stage
    /\ i' = i

\* The loop condition fails: the pipeline function returns.
Return ==
    /\ pc = "loop"
    /\ i > Len(transactions)
    /\ pc' = "done"
    /\ UNCHANGED aside
    /\ UNCHANGED <<variant, transactions, i, error, nonceOffset, lastTx>>
    /\ UNCHANGED stepLocals
    /\ UNCHANGED history

(***************************************************************************)
(* signAndSubmitTransactions (yields.ts)                                   *)
(***************************************************************************)

\* if (tx.status === "CONFIRMED" || tx.status === "BROADCASTED") continue
AlreadySettled(tx) == tx.status \in {"CONFIRMED", "BROADCASTED"}

\* Loop head of lines 1199-1215: settled steps and steps without unsigned
\* data are skipped, every other step goes on to signing.
YieldsLoop ==
    /\ variant = "yields"
    /\ pc = "loop"
    /\ i <= Len(transactions)
    /\ FreshLocals
    /\ IF AlreadySettled(transactions[i]) \/ transactions[i].payload = "absent"
       THEN NextStep
       ELSE pc' = "sign" /\ i' = i
    /\ UNCHANGED aside
    /\ UNCHANGED <<variant, transactions, error, nonceOffset, lastTx>>
    /\ UNCHANGED history

\* Loop head of the earlier version, lines 331-343: only settled steps are
\* skipped.
YieldsOldLoop ==
    /\ variant = "yieldsOld"
    /\ pc = "loop"
    /\ i <= Len(transactions)
    /\ FreshLocals
    /\ IF AlreadySettled(transactions[i])
       THEN NextStep
       ELSE pc' = "sign" /\ i' = i
    /\ UNCHANGED aside
    /\ UNCHANGED <<variant, transactions, error, nonceOffset, lastTx>>
    /\ UNCHANGED history

\* Variant of LocalNonce: the server's nonce is signed as it came.
LocalNonceUnshifted(tx, offset) == tx.nonce

\* txData.nonce = Number(txData.nonce) + nonceOffset
LocalNonce(tx, offset) == tx.nonce + offset

\* Lines 1217-1229: parse the payload, shift its nonce by the local offset,
\* advance the offset and hand the payload to the wallet.  JSON.parse may
\* throw before the wallet is reached; wallet.signTransaction may throw.
YieldsSign ==
    /\ variant = "yields"
    /\ pc = "sign"
    /\ \E r \in {"ok", "parseError", "signError"} :
         IF r = "parseError"
         THEN /\ Throw("parse")
              /\ UNCHANGED <<nonceOffset, signCount, signedNonces>>
         ELSE /\ signedNonces' =
                   IF transactions[i].payload = "nonce"
                   THEN Append(signedNonces,
                               [id |-> i, nonce |-> LocalNonce(transactions[i], nonceOffset)])
                   ELSE signedNonces
              /\ nonceOffset' = nonceOffset + 1
              /\ signCount' = Bump(signCount, i)
              /\ IF r = "ok"
                 THEN pc' = "submit" /\ i' = i /\ error' = error
                 ELSE Throw("sign")
    /\ UNCHANGED aside
    /\ UNCHANGED <<variant, transactions, lastTx, submitCount, patchCount, customSteps>>
    /\ UNCHANGED stepLocals

\* Line 345 of the earlier version: JSON.parse(tx.unsignedTransaction) throws
\* on a missing payload; otherwise the wallet signs.
YieldsOldSign ==
    /\ variant = "yieldsOld"
    /\ pc = "sign"
    /\ \E r \in {"ok", "parseError", "signError"} :
         /\ transactions[i].payload = "absent" => r = "parseError"
         /\ IF r = "parseError"
            THEN /\ Throw("parse")
                 /\ UNCHANGED signCount
            ELSE /\ signCount' = Bump(signCount, i)
                 /\ IF r = "ok"
                    THEN pc' = "submit" /\ i' = i /\ error' = error
                    ELSE Throw("sign")
    /\ UNCHANGED aside
    /\ UNCHANGED <<variant, transactions, nonceOffset, lastTx, submitCount,
                   patchCount, signedNonces, customSteps>>
    /\ UNCHANGED stepLocals

\* Lines 1231-1235 / 347-356: apiClient.submitTransaction(tx.id, signedTx).
YieldsSubmit ==
    /\ variant \in {"yields", "yieldsOld"}
    /\ pc = "submit"
    /\ submitCount' = Bump(submitCount, i)
    /\ \E r \in {"ok", "error"} :
         IF r = "ok"
         THEN pc' = "poll" /\ i' = i /\ error' = error
         ELSE Throw("submit")
    /\ UNCHANGED aside
    /\ UNCHANGED <<variant, transactions, nonceOffset, lastTx, signCount,
                   patchCount, signedNonces, customSteps>>
    /\ UNCHANGED stepLocals

\* Variant of ConfirmationTimeout: the timeout is raised.
ConfirmationTimeoutRaised ==
    /\ warned' = TRUE
    /\ Throw("timeout")

\* Lines 1265-1267 (388-390): the loop ended without a confirmation; the
\* warning is logged and the for loop goes on with the next step.
ConfirmationTimeout ==
    /\ warned' = TRUE
    /\ NextStep
    /\ error' = error

\* Variant of NextAttempt: the pass is not counted.
NextAttemptUncounted(n) == n

\* Line 1262 (385): attempts++
NextAttempt(n) == n + 1

\* One pass of while (!confirmed && attempts < maxAttempts), lines 1242-1263
\* (363-386 in the earlier version), with the loop test that follows it and
\* what follows the loop when the test fails.  The throw of the FAILED
\* branch is inside the inner try: the inner catch swallows it like a failed
\* request, and the loop goes on.  Every pass that does not confirm writes
\* a dot.
YieldsPoll ==
    /\ variant \in {"yields", "yieldsOld"}
    /\ pc = "poll"
    /\ ~confirmed /\ attempts < maxAttempts
    /\ \E status \in {"CONFIRMED", "FAILED", "PENDING", "error"} :
         /\ confirmed' = (status = "CONFIRMED")
         /\ lastStatus' = IF status = "error" THEN lastStatus ELSE status
         /\ attempts' = NextAttempt(attempts)
         /\ dots' = IF confirmed' THEN dots ELSE 1 - dots
         /\ IF confirmed'
            THEN warned' = warned /\ NextStep /\ error' = error
            ELSE IF attempts' >= maxAttempts
            THEN ConfirmationTimeout
            ELSE warned' = warned /\ pc' = pc /\ i' = i /\ error' = error
    /\ UNCHANGED aside
    /\ UNCHANGED <<variant, transactions, nonceOffset, retry, unsignedTransaction,
                   lastTx, waited>>
    /\ UNCHANGED history

(***************************************************************************)
(* processTransactions (perps recipe)                                      *)
(***************************************************************************)

\* Lines 476-489: CONFIRMED and BROADCASTED steps are skipped.
PerpsLoop ==
    /\ variant = "perps"
    /\ pc = "loop"
    /\ i <= Len(transactions)
    /\ FreshLocals
    /\ IF AlreadySettled(transactions[i])
       THEN NextStep
       ELSE pc' = "sign" /\ i' = i
    /\ UNCHANGED aside
    /\ UNCHANGED <<variant, transactions, error, nonceOffset, lastTx>>
    /\ UNCHANGED history

\* Line 492, signTransaction(tx, wallet) of lines 452-466: throws "Nothing to
\* sign" before the wallet is reached when the step has no signablePayload;
\* otherwise the wallet signs (typed data or raw transaction) and may throw.
PerpsSign ==
    /\ variant = "perps"
    /\ pc = "sign"
    /\ IF transactions[i].payload = "absent"
       THEN /\ Throw("sign")
            /\ UNCHANGED signCount
       ELSE /\ signCount' = Bump(signCount, i)
            /\ \E r \in {"ok", "signError"} :
                 IF r = "ok"
                 THEN pc' = "submit" /\ i' = i /\ error' = error
                 ELSE Throw("sign")
    /\ UNCHANGED aside
    /\ UNCHANGED <<variant, transactions, nonceOffset, lastTx, submitCount,
                   patchCount, signedNonces, customSteps>>
    /\ UNCHANGED stepLocals

\* Lines 493-534: submit, log the returned status, pause before the next
\* step.  No status polling in this recipe.
PerpsSubmit ==
    /\ variant = "perps"
    /\ pc = "submit"
    /\ submitCount' = Bump(submitCount, i)
    /\ \E r \in {"ok", "error"} :
         IF r = "ok"
         THEN NextStep /\ error' = error
         ELSE Throw("submit")
    /\ UNCHANGED aside
    /\ UNCHANGED <<variant, transactions, nonceOffset, lastTx, signCount,
                   patchCount, signedNonces, customSteps>>
    /\ UNCHANGED stepLocals

(***************************************************************************)
(* main of the stakekit-signers staking recipes                            *)
(***************************************************************************)

\* Variant of CrossChain: the comparison is inverted.
CrossChainInverted(last, tx) == last # "null" /\ last = tx.network

\* lastTx !== null && lastTx.network !== partialTx.network
CrossChain(last, tx) == last # "null" /\ last # tx.network

\* Variant of IsSkipped: the status of the step is not looked at.
IsSkippedIgnored(tx) == FALSE

\* if (partialTx.status === "SKIPPED") ... continue
IsSkipped(tx) == tx.status = "SKIPPED"

\* Loop head, stakekit-signers-stake.ts 150-162 and part_002 132-140: only
\* SKIPPED steps are skipped; a step on another network than the last
\* submitted one first waits.
SignersLoop ==
    /\ variant \in {"signers", "signersBalance", "pendingActions"}
    /\ pc = "loop"
    /\ i <= Len(transactions)
    /\ FreshLocals
    /\ IF IsSkipped(transactions[i])
       THEN NextStep
       ELSE /\ i' = i
            /\ pc' = IF variant # "pendingActions" /\ CrossChain(lastTx, transactions[i])
                     THEN "wait" ELSE "gas"
    /\ UNCHANGED aside
    /\ UNCHANGED <<variant, transactions, error, nonceOffset, lastTx>>
    /\ UNCHANGED history

\* stakekit-signers-stake.ts 159-162: the fixed 5 second delay.
CrossChainDelay ==
    /\ variant = "signers"
    /\ pc = "wait"
    /\ waited' = TRUE
    /\ pc' = "gas"
    /\ UNCHANGED aside
    /\ UNCHANGED <<variant, transactions, i, error, nonceOffset, lastTx,
                   attempts, confirmed, retry, unsignedTransaction, lastStatus, warned, dots>>
    /\ UNCHANGED history

\* part_002 139-159 (stakekit-signers-stake.ts 460-480): one pass of the
\* while (true) that fetches the staked balances.  The request may fail,
\* the list may hold no locked balance (locked.amount then throws), the
\* locked amount may be short (wait 3 s and ask again) or sufficient.
BalanceWait ==
    /\ variant = "signersBalance"
    /\ pc = "wait"
    /\ \E r \in {"locked", "short", "missing", "error"} :
         IF r = "locked"
         THEN waited' = TRUE /\ pc' = "gas" /\ i' = i /\ error' = error
         ELSE IF r = "short"
         THEN UNCHANGED <<waited, pc, i, error>>
         ELSE Throw("wait") /\ waited' = waited
    /\ UNCHANGED aside
    /\ UNCHANGED <<variant, transactions, nonceOffset, lastTx,
                   attempts, confirmed, retry, unsignedTransaction, lastStatus, warned, dots>>
    /\ UNCHANGED history

\* Variant of CustomSkipsStep: the unsupported mode aborts the run.
CustomAbortsRun == Throw("aborted")

\* stakekit-signers-stake.ts 183-185 and ethers-stake.ts 233-236: the
\* "custom" mode logs that it is not supported and does `continue`.
CustomSkipsStep == NextStep /\ error' = error

\* stakekit-signers-stake.ts 166-189 and part_002 166-187: fetch the gas
\* options and, unless gas.customisable === false, let the user pick a mode.
\* "custom" is a `continue` in the current recipe and a `throw null` in the
\* balance-polling one.
GasMode ==
    /\ pc = "gas"
    /\ variant \in {"signers", "signersBalance", "pendingActions"}
    /\ \E g \in {"fixed", "mode", "custom", "error"} :
         /\ customSteps' = IF g = "custom" THEN customSteps \cup {i} ELSE customSteps
         /\ IF g = "error"
            THEN Throw("gas")
            ELSE IF g = "custom"
            THEN IF variant \in {"signers", "pendingActions"}
                 THEN CustomSkipsStep
                 ELSE Throw("aborted")
            ELSE pc' = "prepare" /\ i' = i /\ error' = error
    /\ UNCHANGED aside
    /\ UNCHANGED <<variant, transactions, nonceOffset, lastTx>>
    /\ UNCHANGED stepLocals
    /\ UNCHANGED <<signCount, submitCount, patchCount, signedNonces>>

\* Variant of PrepareBreak: the loop has no break and runs all its passes.
PrepareBreakMissing ==
    /\ unsignedTransaction' = "set"
    /\ retry' = retry + 1
    /\ i' = i /\ error' = error
    /\ pc' = IF retry' < maxPrepareAttempts THEN pc ELSE "sign"

\* stakekit-signers-stake.ts 196-197: the request resolved with a
\* transaction; break out of the retry loop and go on to signing.
PrepareBreak ==
    /\ unsignedTransaction' = "set"
    /\ retry' = retry
    /\ pc' = "sign" /\ i' = i /\ error' = error

\* Variant of PrepareExhausted: the result is used without the check.
PrepareExhaustedUnchecked ==
    /\ pc' = "sign" /\ i' = i /\ error' = error

\* stakekit-signers-stake.ts 204-206: if (!unsignedTransaction) throw.
PrepareExhausted == Throw("prepare")

\* stakekit-signers-stake.ts 191-206: one pass of the retry loop around
\* patch(`/v1/transactions/${transactionId}`, gasArgs), with the loop test
\* and the check that follow it.  A resolved request breaks out of the loop
\* (a null body leaves unsignedTransaction falsy); a rejected one is counted
\* and, after a pause, the loop goes on until its third pass.
PrepareWithRetries ==
    /\ variant = "signers"
    /\ pc = "prepare"
    /\ retry < maxPrepareAttempts
    /\ patchCount' = Bump(patchCount, i)
    /\ \E r \in {"ok", "null", "error"} :
         IF r = "ok"
         THEN PrepareBreak
         ELSE IF r = "null"
         THEN /\ unsignedTransaction' = "null"
              /\ retry' = retry
              /\ PrepareExhausted
         ELSE /\ unsignedTransaction' = unsignedTransaction
              /\ retry' = retry + 1
              /\ IF retry' < maxPrepareAttempts
                 THEN pc' = pc /\ i' = i /\ error' = error
                 ELSE PrepareExhausted
    /\ UNCHANGED aside
    /\ UNCHANGED <<variant, transactions, nonceOffset, lastTx, attempts, confirmed,
                   waited, lastStatus, warned, dots>>
    /\ UNCHANGED <<signCount, submitCount, signedNonces, customSteps>>

\* part_002 189 (stakekit-signers-stake.ts 510): a single patch; its failure,
\* or a null body read at unsignedTransaction.network, rejects main.
PrepareOnce ==
    /\ variant \in {"signersBalance", "pendingActions"}
    /\ pc = "prepare"
    /\ patchCount' = Bump(patchCount, i)
    /\ \E r \in {"ok", "null", "error"} :
         /\ unsignedTransaction' = IF r = "error" THEN unsignedTransaction
                                    ELSE IF r = "null" THEN "null" ELSE "set"
         /\ IF r = "ok"
            THEN pc' = "sign" /\ i' = i /\ error' = error
            ELSE Throw("prepare")
    /\ UNCHANGED aside
    /\ UNCHANGED <<variant, transactions, nonceOffset, lastTx, attempts, confirmed,
                   retry, waited, lastStatus, warned, dots>>
    /\ UNCHANGED <<signCount, submitCount, signedNonces, customSteps>>

\* stakekit-signers-stake.ts 208-218 and part_002 193-200: getSigningWallet
\* for the prepared transaction's network, then signingWallet.signTransaction.
SignersSign ==
    /\ variant \in {"signers", "signersBalance", "pendingActions"}
    /\ pc = "sign"
    /\ \E r \in {"ok", "walletError", "signError"} :
         IF r = "walletError"
         THEN Throw("wallet") /\ UNCHANGED signCount
         ELSE /\ signCount' = Bump(signCount, i)
              /\ IF r = "ok"
                 THEN pc' = "submit" /\ i' = i /\ error' = error
                 ELSE Throw("sign")
    /\ UNCHANGED aside
    /\ UNCHANGED <<variant, transactions, nonceOffset, lastTx, submitCount,
                   patchCount, signedNonces, customSteps>>
    /\ UNCHANGED stepLocals

\* stakekit-signers-stake.ts 220-229 and part_002 202-207: submit, then
\* record the network of the submitted transaction in lastTx.  The network is
\* read from the prepared transaction, which is the step itself.
SignersSubmit ==
    /\ variant \in {"signers", "signersBalance", "pendingActions"}
    /\ pc = "submit"
    /\ submitCount' = Bump(submitCount, i)
    /\ \E r \in {"ok", "error"} :
         IF r = "ok"
         THEN /\ lastTx' = transactions[i].network
              /\ pc' = "poll" /\ i' = i /\ error' = error
         ELSE Throw("submit") /\ lastTx' = lastTx
    /\ UNCHANGED aside
    /\ UNCHANGED <<variant, transactions, nonceOffset, signCount,
                   patchCount, signedNonces, customSteps>>
    /\ UNCHANGED stepLocals

\* stakekit-signers-stake.ts 244-246, part_002 219-222, ethers-stake.ts
\* 272-275: the else branch of the status loop writes a progress line,
\* waits two seconds and the loop starts over; nothing counts the passes.
StillPending ==
    /\ dots' = 1 - dots
    /\ pc' = pc /\ i' = i /\ error' = error

\* Variant of FailedEndsPolling: a FAILED status is thrown out of the loop.
FailedAbortsRun == Throw("failed")

\* stakekit-signers-stake.ts 239-241, ethers-stake.ts 268-270,
\* stakekit-signers-pending-actions.ts 220-222: FAILED is logged and the
\* status loop is left like on CONFIRMED; the for loop goes on.
FailedEndsPolling == NextStep /\ error' = error

\* stakekit-signers-stake.ts 233-247, part_002 209-223 and
\* stakekit-signers-pending-actions.ts 214-228: one pass of the
\* while (true) status loop.  CONFIRMED and FAILED break out of it; any
\* other status waits and asks again.  A failed request counts as "no
\* status yet" in the current recipe (.catch(() => null)) and rejects main in
\* the balance-polling one.
SignersPoll ==
    /\ variant \in {"signers", "signersBalance", "pendingActions"}
    /\ pc = "poll"
    /\ \E status \in {"CONFIRMED", "FAILED", "PENDING", "error"} :
         /\ lastStatus' = IF status = "error" THEN lastStatus ELSE status
         /\ IF status = "CONFIRMED"
            THEN NextStep /\ error' = error /\ dots' = dots
            ELSE IF status = "FAILED"
            THEN FailedEndsPolling /\ dots' = dots
            ELSE IF status = "error" /\ variant = "signersBalance"
            THEN Throw("poll") /\ dots' = dots
            ELSE StillPending
    /\ UNCHANGED aside
    /\ UNCHANGED <<variant, transactions, nonceOffset, lastTx, attempts, confirmed,
                   retry, unsignedTransaction, waited, warned>>
    /\ UNCHANGED history

(***************************************************************************)
(* main of the ethers staking recipe (ethers-stake.ts)                     *)
(***************************************************************************)

\* Lines 200-208: only SKIPPED steps are skipped; every other step is
\* prepared at once (no cross-chain wait in this recipe).
EthersLoop ==
    /\ variant = "ethersStake"
    /\ pc = "loop"
    /\ i <= Len(transactions)
    /\ FreshLocals
    /\ IF IsSkipped(transactions[i])
       THEN NextStep
       ELSE pc' = "patch" /\ i' = i
    /\ UNCHANGED aside
    /\ UNCHANGED <<variant, transactions, error, nonceOffset, lastTx>>
    /\ UNCHANGED history

\* Lines 210-212: patch(`/v1/transactions/${transactionId}`, {}) to learn the
\* network; a rejected request, or a null body read at transaction.network,
\* leaves the loop.
EthersPrepare ==
    /\ variant = "ethersStake"
    /\ pc = "patch"
    /\ patchCount' = Bump(patchCount, i)
    /\ \E r \in {"ok", "null", "error"} :
         IF r = "ok"
         THEN pc' = "gas" /\ i' = i /\ error' = error
         ELSE Throw("prepare")
    /\ UNCHANGED aside
    /\ UNCHANGED <<variant, transactions, nonceOffset, lastTx>>
    /\ UNCHANGED stepLocals
    /\ UNCHANGED <<signCount, submitCount, signedNonces, customSteps>>

\* Lines 216-236: fetch the gas options and let the user pick a mode; the
\* prompt is always shown.  "custom" is a `continue`.
EthersGasMode ==
    /\ variant = "ethersStake"
    /\ pc = "gas"
    /\ \E g \in {"mode", "custom", "error"} :
         /\ customSteps' = IF g = "custom" THEN customSteps \cup {i} ELSE customSteps
         /\ IF g = "error"
            THEN Throw("gas")
            ELSE IF g = "custom"
            THEN CustomSkipsStep
            ELSE pc' = "prepare" /\ i' = i /\ error' = error
    /\ UNCHANGED aside
    /\ UNCHANGED <<variant, transactions, nonceOffset, lastTx>>
    /\ UNCHANGED stepLocals
    /\ UNCHANGED <<signCount, submitCount, patchCount, signedNonces>>

\* Line 239: the second patch, with the gas arguments.  A null body is only
\* read at the next statement.
EthersReprepare ==
    /\ variant = "ethersStake"
    /\ pc = "prepare"
    /\ patchCount' = Bump(patchCount, i)
    /\ \E r \in {"ok", "null", "error"} :
         /\ unsignedTransaction' = IF r = "error" THEN unsignedTransaction
                                    ELSE IF r = "null" THEN "null" ELSE "set"
         /\ IF r = "error"
            THEN Throw("prepare")
            ELSE pc' = "sign" /\ i' = i /\ error' = error
    /\ UNCHANGED aside
    /\ UNCHANGED <<variant, transactions, nonceOffset, lastTx, attempts, confirmed,
                   retry, waited, lastStatus, warned, dots>>
    /\ UNCHANGED <<signCount, submitCount, signedNonces, customSteps>>

\* Lines 243-245: wallet.signTransaction(JSON.parse(finalTransaction
\* .unsignedTransaction)).  Reading the field of a null body, or parsing a
\* payload that is not JSON, throws before the wallet is reached.
EthersSign ==
    /\ variant = "ethersStake"
    /\ pc = "sign"
    /\ \E r \in {"ok", "parseError", "signError"} :
         /\ unsignedTransaction = "null" => r = "parseError"
         /\ IF r = "parseError"
            THEN Throw("parse") /\ UNCHANGED signCount
            ELSE /\ signCount' = Bump(signCount, i)
                 /\ IF r = "ok"
                    THEN pc' = "submit" /\ i' = i /\ error' = error
                    ELSE Throw("sign")
    /\ UNCHANGED aside
    /\ UNCHANGED <<variant, transactions, nonceOffset, lastTx, submitCount,
                   patchCount, signedNonces, customSteps>>
    /\ UNCHANGED stepLocals

\* Lines 249-251: post(`/v1/transactions/${transactionId}/submit`, ...).
EthersSubmit ==
    /\ variant = "ethersStake"
    /\ pc = "submit"
    /\ submitCount' = Bump(submitCount, i)
    /\ \E r \in {"ok", "error"} :
         IF r = "ok"
         THEN pc' = "poll" /\ i' = i /\ error' = error
         ELSE Throw("submit")
    /\ UNCHANGED aside
    /\ UNCHANGED <<variant, transactions, nonceOffset, lastTx, signCount,
                   patchCount, signedNonces, customSteps>>
    /\ UNCHANGED stepLocals

\* Lines 260-276: one pass of while (!confirmed).  CONFIRMED and FAILED both
\* set confirmed; any other status, and a failed request (.catch(() =>
\* null)), writes a dot, waits and asks again.
EthersPoll ==
    /\ variant = "ethersStake"
    /\ pc = "poll"
    /\ ~confirmed
    /\ \E status \in {"CONFIRMED", "FAILED", "PENDING", "error"} :
         /\ lastStatus' = IF status = "error" THEN lastStatus ELSE status
         /\ confirmed' = (status \in {"CONFIRMED", "FAILED"})
         /\ IF status = "CONFIRMED"
            THEN NextStep /\ error' = error /\ dots' = dots
            ELSE IF status = "FAILED"
            THEN FailedEndsPolling /\ dots' = dots
            ELSE StillPending
    /\ UNCHANGED aside
    /\ UNCHANGED <<variant, transactions, nonceOffset, lastTx, attempts,
                   retry, unsignedTransaction, waited, warned>>
    /\ UNCHANGED history

Next ==
    \/ Return
    \/ YieldsLoop
    \/ YieldsOldLoop
    \/ YieldsSign
    \/ YieldsOldSign
    \/ YieldsSubmit
    \/ YieldsPoll
    \/ PerpsLoop
    \/ PerpsSign
    \/ PerpsSubmit
    \/ SignersLoop
    \/ CrossChainDelay
    \/ BalanceWait
    \/ GasMode
    \/ PrepareWithRetries
    \/ PrepareOnce
    \/ SignersSign
    \/ SignersSubmit
    \/ SignersPoll
    \/ EthersLoop
    \/ EthersPrepare
    \/ EthersGasMode
    \/ EthersReprepare
    \/ EthersSign
    \/ EthersSubmit
    \/ EthersPoll

Spec == Init /\ [][Next]_vars

\* The action of three steps on two networks, the middle one SKIPPED, run by
\* the stakekit-signers staking recipes.
SampleTransactions ==
    << Transaction("CREATED", "ethereum", "plain", 0),
       Transaction("SKIPPED", "ethereum", "plain", 0),
       Transaction("CREATED", "polygon", "plain", 0) >>

InitSample ==
    /\ variant \in {"signers", "signersBalance"}
    /\ transactions = SampleTransactions
    /\ Start
    /\ AsideIdle

NextSample ==
    \/ Return
    \/ SignersLoop
    \/ CrossChainDelay
    \/ BalanceWait
    \/ GasMode
    \/ PrepareWithRetries
    \/ PrepareOnce
    \/ SignersSign
    \/ SignersSubmit
    \/ SignersPoll

SpecSample == InitSample /\ [][NextSample]_vars

\* The staking and pending-action recipes of stakekit-signers and ethers:
\* stakekit-signers-stake.ts, its balance-polling version, ethers-stake.ts
\* and stakekit-signers-pending-actions.ts (main, 148-236: the loop of the
\* staking recipe without the cross-chain wait and with a single PATCH).
StakingVariants == {"signers", "signersBalance", "ethersStake", "pendingActions"}

InitStaking ==
    /\ variant \in StakingVariants
    /\ \E n \in 0..MaxTxs : transactions \in [1..n -> TransactionsOf(variant)]
    /\ Start
    /\ AsideIdle

NextStaking ==
    \/ Return
    \/ SignersLoop
    \/ CrossChainDelay
    \/ BalanceWait
    \/ GasMode
    \/ PrepareWithRetries
    \/ PrepareOnce
    \/ SignersSign
    \/ SignersSubmit
    \/ SignersPoll
    \/ EthersLoop
    \/ EthersPrepare
    \/ EthersGasMode
    \/ EthersReprepare
    \/ EthersSign
    \/ EthersSubmit
    \/ EthersPoll

SpecStaking == InitStaking /\ [][NextStaking]_vars

\* Every await of the pipeline settles: the API answers every request, the
\* wallet every signing call, the user every prompt, and every timer fires.
\* What they answer stays free.
\* What they answer stays free.  No loop test reads the nonce of a payload,
\* so the runs explored for termination are those without one.
InitControl ==
    /\ Init
    /\ \A id \in Ids : transactions[id].payload # "nonce"

FairSpec == InitControl /\ [][Next]_vars /\ WF_vars(Next)

(***************************************************************************)
(* The HTTP helpers get, post and patch (src/utils)                        *)
(***************************************************************************)

\* "requests"        src/utils/requests.ts 7-65
\* "yieldApi"        src/utils/requests-yield-api.ts 15-113
\* "yieldApiLegacy"  src/utils/requests-yield-api.ts 121-156
Helpers == {"requests", "yieldApi", "yieldApiLegacy"}

Methods == {"get", "post", "patch"}

\* What fetch resolves with: the status, the reason phrase (empty over
\* HTTP/2) and whether the body is JSON.
Responses ==
    [status : {200, 201, 400, 404, 500},
     statusText : {"reason", ""},
     body : {"json", "text"}]

\* Response.ok
Ok(res) == res.status \in 200..299

\* The promise resolves with the parsed body.
Resolved == [state |-> "resolved", value |-> "parsed", error |-> [status |-> 0, text |-> ""]]

\* The promise rejects with an error; status 0 stands for an error that
\* carries no status code.
Rejected(status, text) ==
    [state |-> "rejected", value |-> "none", error |-> [status |-> status, text |-> text]]

\* requests.ts 16-23 (36-44, 56-64): parse the body, then throw
\* new Error(res.statusText) unless res.ok.  res.json() rejects with a
\* SyntaxError on a body that is not JSON, whatever the status.
RequestsHelper(res) ==
    IF res.body # "json" THEN Rejected(0, "SyntaxError")
    ELSE IF ~Ok(res) THEN Rejected(0, res.statusText)
    ELSE Resolved

\* requests-yield-api.ts 19-42 (55-78, 90-112): the same, the error being
\* `Request failed: ${response.status} ${response.statusText}`; the catch
\* logs and rethrows.
YieldApiHelper(res) ==
    IF res.body # "json" THEN Rejected(0, "SyntaxError")
    ELSE IF ~Ok(res) THEN Rejected(res.status, res.statusText)
    ELSE Resolved

\* requests-yield-api.ts 130 (143, 155): .then((res) => res.json()), with no
\* look at res.ok.
YieldApiLegacyHelper(res) ==
    IF res.body # "json" THEN Rejected(0, "SyntaxError")
    ELSE Resolved

Settle(helper, res) ==
    IF helper = "requests" THEN RequestsHelper(res)
    ELSE IF helper = "yieldApi" THEN YieldApiHelper(res)
    ELSE YieldApiLegacyHelper(res)

\* A helper was called and fetch has resolved with a response.
InitHttp ==
    /\ PipelineIdle
    /\ proc = NoRun
    /\ flow = NoFlow
    /\ ask = NoAsk
    /\ sig = NoSig
    /\ pages = NoPages
    /\ exec = NoExec
    /\ \E h \in Helpers, m \in Methods, r \in Responses :
         http = [state |-> "pending", helper |-> h, method |-> m, response |-> r,
                 value |-> "none", error |-> [status |-> 0, text |-> ""]]

\* The .then callback (or the rest of the async function) runs.
HttpSettle ==
    /\ http.state = "pending"
    /\ LET out == Settle(http.helper, http.response)
       IN http' = [http EXCEPT !.state = out.state, !.value = out.value,
                               !.error = out.error]
    /\ UNCHANGED pipeline
    /\ UNCHANGED <<proc, flow, ask, sig, pages, exec>>

NextHttp == HttpSettle

SpecHttp == InitHttp /\ [][NextHttp]_vars

(***************************************************************************)
(* The recipe scripts as processes: startup check, main, top-level handler *)
(***************************************************************************)

\* "yields"               src/recipes/yields.ts 777-1791
\* "perps"                src/unnamed/part_008
\* "signersStake"         src/recipes/stakekit-signers-stake.ts 1-347
\* "signersStakeBalance"  src/recipes/stakekit-signers-stake.ts 349-558
\* "ethersStake"          src/recipes/ethers-stake.ts
\* "ethers"               src/recipes/ethers.ts
Recipes == {"yields", "perps", "signersStake", "signersStakeBalance", "ethersStake",
            "ethers"}

\* The environment variables every recipe reads (the API key under the
\* recipe's own name).
Required == {"MNEMONIC", "API_KEY"}

\* if (!process.env.MNEMONIC || !process.env.API_KEY) { ...; process.exit(1) }
\* at module top level: yields.ts 785-788, part_008 16-19,
\* stakekit-signers-stake.ts 18-26, ethers-stake.ts 18-21.  The two other
\* scripts go straight from dotenv.config() to main.
HasEnvCheck(r) == r \in {"yields", "perps", "signersStake", "ethersStake"}

\* What the body of main is wrapped in:
\*   "logs"          try { ... } catch (e) { console.error(<label>, e) }
\*                   yields.ts 1278-1307, part_008 541-667,
\*                   stakekit-signers-stake.ts 32-256, ethers-stake.ts 30-285
\*   "distinguishes" catch (error) { if (error) "Script failed" else
\*                   "Script was aborted." }, ethers.ts 41-187
\*   "none"          no try, stakekit-signers-stake.ts 357-546
MainCatch(r) ==
    IF r = "ethers" THEN "distinguishes"
    ELSE IF r = "signersStakeBalance" THEN "none"
    ELSE "logs"

\* How the script calls main:
\*   "catchExit"  main().catch((error) => { console.error(...); process.exit(1) })
\*                yields.ts 1788-1791, part_008 1237-1240
\*   "catchLog"   main().catch(error => { console.error(...) }), ethers-stake.ts 385-387
\*   "syncTry"    try { main(); } catch (error) { if (error) ... else ... }
\*                stakekit-signers-stake.ts 339-347 and 548-557
\*   "bare"       main(); ethers.ts 190
Launch(r) ==
    IF r \in {"yields", "perps"} THEN "catchExit"
    ELSE IF r = "ethersStake" THEN "catchLog"
    ELSE IF r = "ethers" THEN "bare"
    ELSE "syncTry"

\* How the body of main may end.  `throw null` is the "custom" gas mode of
\* ethers.ts 133 and stakekit-signers-stake.ts 504; the preparation retries
\* are those of stakekit-signers-stake.ts 194-206; "aborted" is a cancelled
\* prompt, whose promise rejects with a falsy value.
Outcomes(r) ==
    {"completed", "apiError", "signError", "aborted"}
    \cup (IF r = "signersStake" THEN {"prepareExhausted"} ELSE {})
    \cup (IF r \in {"ethers", "signersStakeBalance"} THEN {"null"} ELSE {})

\* The outcomes that throw a truthy value (an Error).
Truthy == {"apiError", "signError", "prepareExhausted", "walletError"}

\* The outcomes that throw a falsy value.
Falsy == {"null", "aborted"}

InitProcess ==
    /\ PipelineIdle
    /\ http = NoCall
    /\ flow = NoFlow
    /\ ask = NoAsk
    /\ sig = NoSig
    /\ pages = NoPages
    /\ exec = NoExec
    /\ \E r \in Recipes, m \in SUBSET Required :
         proc = [NoRun EXCEPT !.recipe = r, !.missing = m, !.stage = "startup"]

\* Module top level up to the call of main: the environment check, where the
\* script has one, prints its diagnostic and exits with code 1.
Startup ==
    /\ proc.stage = "startup"
    /\ proc' =
         IF HasEnvCheck(proc.recipe) /\ proc.missing # {}
         THEN [proc EXCEPT !.log = @ \cup {"Error: environment variables are required"},
                           !.exited = TRUE, !.exitCode = 1, !.stage = "exited"]
         ELSE [proc EXCEPT !.stage = "main"]
    /\ UNCHANGED pipeline
    /\ UNCHANGED <<http, flow, ask, sig, pages, exec>>

\* What of main's body has run by the time it ends, in a script without the
\* environment check that lacks a variable: ethers.ts 43 builds the wallet
\* from the mnemonic first, and throws; stakekit-signers-stake.ts 360-383
\* reaches the mnemonic only after two requests and two prompts.  A missing
\* API key is sent as it is (requests.ts 13).
WalletFirst(r) == r = "ethers"

\* The catch of main, if any, and how main's promise settles.
MainSettles(run, o) ==
    IF o = "completed" \/ MainCatch(run.recipe) = "none"
    THEN [run EXCEPT !.outcome = o,
                     !.main = IF o = "completed" THEN "resolved" ELSE "rejected"]
    ELSE IF MainCatch(run.recipe) = "logs"
    THEN [run EXCEPT !.outcome = o, !.main = "resolved",
                     !.log = @ \cup {"Error executing action:"}]
    ELSE [run EXCEPT !.outcome = o, !.main = "resolved",
                     !.log = @ \cup {IF o \in Truthy THEN "Script failed"
                                                     ELSE "Script was aborted."}]

\* The body of main runs to its end.
MainBody ==
    /\ proc.stage = "main"
    /\ \E o \in Outcomes(proc.recipe) \cup {"walletError"} :
         /\ o = "walletError" => "MNEMONIC" \in proc.missing
         /\ ("MNEMONIC" \in proc.missing /\ WalletFirst(proc.recipe)) => o = "walletError"
         /\ ("MNEMONIC" \in proc.missing /\ ~WalletFirst(proc.recipe))
              => o \in {"walletError", "apiError", "aborted"}
         /\ LET reached == ~(o = "walletError" /\ WalletFirst(proc.recipe))
                ran == [proc EXCEPT !.requested = reached, !.prompted = reached,
                                    !.stage = "settled"]
            IN proc' = MainSettles(ran, o)
    /\ UNCHANGED pipeline
    /\ UNCHANGED <<http, flow, ask, sig, pages, exec>>

\* A rejection of main that no handler is attached to.  The runtime decides:
\* it prints the reason and exits with code 1, or (older Node) prints a
\* warning and the process ends with code 0.
Unhandled(run, crash) ==
    [run EXCEPT !.log = @ \cup {"UnhandledPromiseRejection"},
                !.exited = TRUE, !.exitCode = IF crash THEN 1 ELSE 0,
                !.stage = "exited"]

\* main's promise has settled: the handler attached to it runs, if there is
\* one, and the process ends.  The catch of try { main(); } only sees what
\* main throws before its first await, which is nothing: main is async.
TopLevel ==
    /\ proc.stage = "settled"
    /\ \E crash \in BOOLEAN :
         proc' =
           IF proc.main = "resolved"
           THEN [proc EXCEPT !.exited = TRUE, !.exitCode = 0, !.stage = "exited"]
           ELSE IF Launch(proc.recipe) = "catchExit"
           THEN [proc EXCEPT !.log = @ \cup {"Script failed with error:"},
                             !.exited = TRUE, !.exitCode = 1, !.stage = "exited"]
           ELSE IF Launch(proc.recipe) = "catchLog"
           THEN [proc EXCEPT !.log = @ \cup {"Script failed with error:"},
                             !.exited = TRUE, !.exitCode = 0, !.stage = "exited"]
           ELSE Unhandled(proc, crash)
    /\ UNCHANGED pipeline
    /\ UNCHANGED <<http, flow, ask, sig, pages, exec>>

NextProcess ==
    \/ Startup
    \/ MainBody
    \/ TopLevel

SpecProcess == InitProcess /\ [][NextProcess]_vars

(***************************************************************************)
(* What the mains put into their HTTP requests                             *)
(***************************************************************************)

\* The data a main handles, by name.  The mnemonic comes from the
\* environment; the wallet built from it holds the private key; the address
\* and the additional addresses are read from the wallet, and the wallet
\* produces the signed transaction.
Secrets == {"MNEMONIC", "privateKey"}

WalletData == {"address", "additionalAddresses", "signedTransaction"}

\* Variant of ActionBody: the wallet options are spread into the body.
ActionBodyWithWalletOptions(f) ==
    {"integrationId", "address", "amount", "MNEMONIC", "walletType", "index"}

\* stakekit-signers-stake.ts 137-144: the body of post(`/v1/actions/${action}`).
ActionBody(f) ==
    {"integrationId", "address", "amount"}
    \cup (IF f.additional THEN {"additionalAddresses"} ELSE {})
    \cup (IF f.validator THEN {"validatorAddress"} ELSE {})

\* main of stakekit-signers-stake.ts 31-257 with collectRequiredArguments
\* (261-336), await by await.  A request is listed with what its URL and
\* body hold; the header X-API-KEY is added by the helper.  The last six
\* stations are the loop body, run once per transaction.
SignersStakeMain(f) ==
    << [kind |-> "request", line |-> 34,  terms |-> {}],
       [kind |-> "prompt",  line |-> 42,  terms |-> {}],
       [kind |-> "prompt",  line |-> 60,  terms |-> {}],
       [kind |-> "config",  line |-> 68,  terms |-> {"integrationId"}],
       [kind |-> "local",   line |-> 79,  terms |-> {}],
       [kind |-> "local",   line |-> 87,  terms |-> {}],
       [kind |-> "request", line |-> 99,  terms |-> {"network", "address", "tokenAddress"}],
       [kind |-> "request", line |-> 110,
        terms |-> {"integrationId", "address"}
                  \cup (IF f.additional THEN {"additionalAddresses"} ELSE {})],
       [kind |-> "prompt",  line |-> 121, terms |-> {}],
       [kind |-> "request", line |-> 266, terms |-> {"integrationId"}],
       [kind |-> "prompt",  line |-> 278, terms |-> {}],
       [kind |-> "action",  line |-> 137, terms |-> {"action"} \cup ActionBody(f)],
       [kind |-> "request", line |-> 167, terms |-> {"network"}],
       [kind |-> "prompt",  line |-> 174, terms |-> {}],
       [kind |-> "request", line |-> 196, terms |-> {"transactionId", "gasArgs"}],
       [kind |-> "local",   line |-> 209, terms |-> {}],
       [kind |-> "request", line |-> 222, terms |-> {"transactionId", "signedTransaction"}],
       [kind |-> "request", line |-> 234, terms |-> {"transactionId"}] >>

\* main of yields.ts 1277-1308 with selectYieldFlow, showYieldMenu,
\* executeAction and signAndSubmitTransactions, await by await; the bodies
\* are those YieldsApiClient (961-1054) builds.  The last three stations are
\* the loop body.
YieldsMain(f) ==
    << [kind |-> "local",   line |-> 1300, terms |-> {}],
       [kind |-> "config",  line |-> 1314, terms |-> {"limit", "offset"}],
       [kind |-> "prompt",  line |-> 1346, terms |-> {}],
       [kind |-> "request", line |-> 1459, terms |-> {"yieldId", "address"}],
       [kind |-> "prompt",  line |-> 1489, terms |-> {}],
       [kind |-> "request", line |-> 1094, terms |-> {"yieldId", "limit"}],
       [kind |-> "prompt",  line |-> 1102, terms |-> {}],
       [kind |-> "prompt",  line |-> 1588, terms |-> {}],
       [kind |-> "action",  line |-> 1612,
        terms |-> {"yieldId", "address", "amount"}
                  \cup (IF f.validator THEN {"validatorAddress"} ELSE {})],
       [kind |-> "local",   line |-> 1229, terms |-> {}],
       [kind |-> "request", line |-> 1232, terms |-> {"transactionId", "signedTransaction"}],
       [kind |-> "request", line |-> 1246, terms |-> {"transactionId"}] >>

Stations(f) == IF f.recipe = "signersStake" THEN SignersStakeMain(f) ELSE YieldsMain(f)

\* The first station of the loop over the transactions.
LoopHead(f) == IF f.recipe = "signersStake" THEN 13 ELSE 10

\* Every helper call carries the API key in its X-API-KEY header
\* (requests.ts 13; YieldsApiClient.makeRequest passes this.apiKey).
Sends(f, terms) == [f EXCEPT !.sent = @ \cup terms \cup {"API_KEY"}]

\* After station `at`: the next station, the loop head again while
\* transactions are left, or 0 when main has returned.
After(f) ==
    IF f.at < Len(Stations(f)) THEN [f EXCEPT !.at = @ + 1]
    ELSE IF f.left > 1 THEN [f EXCEPT !.at = LoopHead(f), !.left = @ - 1]
    ELSE [f EXCEPT !.at = 0]

\* main has thrown or returned early.
Ended(f) == [f EXCEPT !.at = 0]

Station == Stations(flow)[flow.at]

InitFlow ==
    /\ PipelineIdle
    /\ http = NoCall
    /\ proc = NoRun
    /\ ask = NoAsk
    /\ sig = NoSig
    /\ pages = NoPages
    /\ exec = NoExec
    /\ \E r \in {"signersStake", "yields"} :
         flow = [NoFlow EXCEPT !.recipe = r, !.at = 1]

\* A request that only reads: it is sent, and resolves or rejects.
FlowRequest ==
    /\ flow.at # 0
    /\ Station.kind = "request"
    /\ \E ok \in BOOLEAN :
         flow' = IF ok THEN After(Sends(flow, Station.terms))
                       ELSE Ended(Sends(flow, Station.terms))
    /\ UNCHANGED pipeline
    /\ UNCHANGED <<http, proc, ask, sig, pages, exec>>

\* The request whose answer describes the integration (the yields): it
\* says whether the action takes additional addresses and a validator.
FlowConfig ==
    /\ flow.at # 0
    /\ Station.kind = "config"
    /\ \E ok \in BOOLEAN, a \in BOOLEAN, v \in BOOLEAN :
         flow' = IF ok
                 THEN After([Sends(flow, Station.terms) EXCEPT
                                !.additional = a /\ flow.recipe = "signersStake",
                                !.validator = v])
                 ELSE Ended(Sends(flow, Station.terms))
    /\ UNCHANGED pipeline
    /\ UNCHANGED <<http, proc, ask, sig, pages, exec>>

\* The request that creates the action: its answer holds the transactions.
FlowAction ==
    /\ flow.at # 0
    /\ Station.kind = "action"
    /\ \E n \in 0..MaxTxs :
         flow' = IF n = 0 THEN Ended(Sends(flow, Station.terms))
                 ELSE After([Sends(flow, Station.terms) EXCEPT !.left = n])
    /\ UNCHANGED pipeline
    /\ UNCHANGED <<http, proc, ask, sig, pages, exec>>

\* A prompt is answered or cancelled.
FlowPrompt ==
    /\ flow.at # 0
    /\ Station.kind = "prompt"
    /\ \E answered \in BOOLEAN :
         flow' = IF answered THEN After(flow) ELSE Ended(flow)
    /\ UNCHANGED pipeline
    /\ UNCHANGED <<http, proc, ask, sig, pages, exec>>

\* A call into the wallet library (build the wallet from the mnemonic, read
\* the addresses, sign): it returns or throws; nothing is sent.
FlowLocal ==
    /\ flow.at # 0
    /\ Station.kind = "local"
    /\ \E ok \in BOOLEAN :
         flow' = IF ok THEN After(flow) ELSE Ended(flow)
    /\ UNCHANGED pipeline
    /\ UNCHANGED <<http, proc, ask, sig, pages, exec>>

NextFlow ==
    \/ FlowRequest
    \/ FlowConfig
    \/ FlowAction
    \/ FlowPrompt
    \/ FlowLocal

SpecFlow == InitFlow /\ [][NextFlow]_vars

(***************************************************************************)
(* The prompters: promptForArguments (yields.ts 1076-1190),                *)
(* promptFromSchema (part_008 347-447), addValidatorToArgs                 *)
(* (ethers-stake.ts 354-382)                                               *)
(***************************************************************************)

\* A JavaScript value: its type and, as text, what it holds.
Value(type, v) == [type |-> type, v |-> v]

\* No value: a field attribute the schema does not declare.
Undefined == Value("undefined", "")

\* The key is not in the result map.
Absent == Value("absent", "")

\* What the user can type at an input prompt.
Inputs == {"", "-5", "0", "12", "12abc", "abc"}

\* Number.parseFloat: the longest numeric prefix, NaN when there is none.
ParseFloat(input) ==
    CASE input = "-5" -> "-5"
      [] input = "0" -> "0"
      [] input = "12" -> "12"
      [] input = "12abc" -> "12"
      [] OTHER -> "NaN"

\* The number a numeric text stands for.
NumberOf(text) ==
    CASE text = "-5" -> -5 [] text = "0" -> 0 [] text = "12" -> 12 [] OTHER -> 0

\* JavaScript truthiness of a value.
IsTruthy(val) ==
    CASE val.type = "string" -> val.v # ""
      [] val.type = "number" -> val.v \notin {"0", "NaN"}
      [] val.type = "boolean" -> val.v = "true"
      [] val.type \in {"undefined", "absent"} -> FALSE
      [] OTHER -> TRUE

\* A field of a schema (a property of an ArgumentSchema, required when the
\* schema's required list names it); an attribute the schema leaves out is
\* Undefined (an empty set for options and enum, no sub-fields).
Field(name, type, required, optionsRef) ==
    [name |-> name, type |-> type, required |-> required, optionsRef |-> optionsRef,
     isArray |-> FALSE, options |-> {}, default |-> Undefined,
     minimum |-> Undefined, maximum |-> Undefined, fields |-> <<>>]

Amount == Field("amount", "number", TRUE, FALSE)

ValidatorAddress == Field("validatorAddress", "string", TRUE, TRUE)

ValidatorAddresses ==
    [Field("validatorAddresses", "string", TRUE, TRUE) EXCEPT !.isArray = TRUE]

Memo == Field("memo", "string", FALSE, FALSE)

Price == Field("price", "number", FALSE, FALSE)

\* An optional number that declares a default.
Leverage == [Field("leverage", "number", FALSE, FALSE) EXCEPT !.default = Value("number", "12")]

\* A required number between a minimum of 0, sent as a number or as text,
\* and a maximum of 12.
Size(minimum) ==
    [Field("size", "number", TRUE, FALSE) EXCEPT
        !.minimum = minimum, !.maximum = Value("number", "12")]

Side == [Field("side", "string", FALSE, FALSE) EXCEPT !.options = {"long", "short"}]

ReduceOnly == Field("reduceOnly", "boolean", FALSE, FALSE)

Tags == [Field("tags", "array", FALSE, FALSE) EXCEPT !.isArray = TRUE]

Extra == [Field("extra", "object", FALSE, FALSE) EXCEPT !.fields = <<Memo, Price>>]

Schemas ==
    { <<Amount, ValidatorAddress>>,
      <<ValidatorAddress, Amount>>,
      <<Amount, ValidatorAddress, Memo>>,
      <<ValidatorAddresses>>,
      <<Leverage, Memo>>,
      <<Size(Value("number", "0"))>>,
      <<Size(Value("string", "0"))>>,
      <<Side, ReduceOnly, Tags, Price>>,
      <<Extra>> }

FieldNames ==
    {"amount", "validatorAddress", "validatorAddresses", "memo", "price", "leverage",
     "size", "side", "reduceOnly", "tags", "extra"}

Prompters == {"promptForArguments", "promptFromSchema", "addValidatorToArgs"}

\* The longest validator list the API returns here.
MaxValidators == 2

\* ValidatorDto (yields.ts 873-899): the address, and the optional name
\* and status ("" when the API leaves them out).
Validators == [address : {"0xA", "0xB"}, name : {"", "Alpha"}, status : {"", "active"}]

ItemLists == UNION {[1..n -> Validators] : n \in 0..MaxValidators}

\* yields.ts 1097-1100, ethers-stake.ts 362-365: the choice shown for a
\* validator; its name is the validator's name (its address when it has
\* none) followed by the status.
Choice(v) ==
    [name |-> <<IF v.name # "" THEN v.name ELSE v.address, v.status>>,
     value |-> Value("string", v.address)]

\* validatorChoices.find(c => c.name === selectedValidator): the first
\* choice with that name, Undefined when there is none.
Find(items, answer) ==
    IF \E n \in 1..Len(items) : Choice(items[n]).name = answer
    THEN Choice(items[CHOOSE n \in 1..Len(items) :
                    /\ Choice(items[n]).name = answer
                    /\ \A m \in 1..(n - 1) : Choice(items[m]).name # answer])
    ELSE Undefined

\* yields.ts 1087-1092: the field's choices are fetched from the API.
TakesValidators(field, passed) ==
    /\ field.optionsRef
    /\ passed
    /\ field.name \in {"validatorAddress", "validatorAddresses"}

\* part_008 366-369: an optional property with a default is not prompted.
TakesDefault(field) == ~field.required /\ field.default # Undefined

\* The branch of the if-chain 1115-1185 of promptForArguments a field takes.
Branch(field) ==
    IF field.options # {} THEN "select"
    ELSE IF field.type = "number" THEN "number"
    ELSE IF field.type = "boolean" THEN "boolean"
    ELSE IF field.isArray THEN "array"
    ELSE IF field.type = "object" /\ field.fields # <<>> THEN "object"
    ELSE "input"

\* The branch of the if-chain 371-443 of promptFromSchema a property takes.
SchemaBranch(field) ==
    IF field.options # {} THEN "select"
    ELSE IF field.type = "boolean" THEN "boolean"
    ELSE IF field.type = "object" /\ field.fields # <<>> THEN "object"
    ELSE IF field.type = "array" THEN "array"
    ELSE "input"

BranchOf(prompter, field) ==
    IF prompter = "promptFromSchema" THEN SchemaBranch(field) ELSE Branch(field)

\* Variant of Validate: the prompts take whatever is typed.
ValidateAnything(field, input) == TRUE

\* The validate callbacks of promptForArguments (1123-1134, 1177-1181); a
\* select and a confirm take any of their answers.
Validate(field, input) ==
    CASE Branch(field) = "number" ->
            \/ ~field.required /\ input = ""
            \/ /\ ParseFloat(input) # "NaN"
               /\ ~(IsTruthy(field.minimum)
                     /\ NumberOf(ParseFloat(input)) < NumberOf(ParseFloat(field.minimum.v)))
               /\ ~(IsTruthy(field.maximum)
                     /\ NumberOf(ParseFloat(input)) > NumberOf(ParseFloat(field.maximum.v)))
      [] Branch(field) = "input" -> ~(field.required /\ input = "")
      [] OTHER -> TRUE

\* The validate callback of promptFromSchema (416-435); the schemas here
\* declare no minLength, and every number of Inputs is an integer.
SchemaValidate(field, input) ==
    CASE SchemaBranch(field) = "input" ->
            \/ ~field.required /\ input = ""
            \/ /\ input # ""
               /\ field.type \in {"number", "integer"} =>
                    /\ ParseFloat(input) # "NaN"
                    /\ ~(field.minimum # Undefined
                         /\ NumberOf(ParseFloat(input)) < NumberOf(field.minimum.v))
                    /\ ~(field.maximum # Undefined
                         /\ NumberOf(ParseFloat(input)) > NumberOf(field.maximum.v))
      [] OTHER -> TRUE

ValidateOf(prompter, field, input) ==
    IF prompter = "promptFromSchema" THEN SchemaValidate(field, input)
    ELSE Validate(field, input)

\* What the prompt of a branch can answer.
Answers(prompter, field) ==
    CASE BranchOf(prompter, field) = "select" -> field.options
      [] BranchOf(prompter, field) = "boolean" -> {"true", "false"}
      [] OTHER -> {input \in Inputs : ValidateOf(prompter, field, input)}

\* What promptForArguments leaves under the field's name for an answer
\* (1116-1185).
Stored(field, input) ==
    CASE Branch(field) = "select" -> Value("string", input)
      [] Branch(field) = "number" ->
            IF IsTruthy(Value("string", input))
            THEN Value("number", ParseFloat(input)) ELSE Absent
      [] Branch(field) = "boolean" -> Value("boolean", input)
      [] Branch(field) = "array" ->
            IF IsTruthy(Value("string", input)) THEN Value("array", input) ELSE Absent
      [] OTHER ->
            IF IsTruthy(Value("string", input)) \/ field.required
            THEN Value("string", input) ELSE Absent

\* What promptFromSchema leaves under the property's name for an answer
\* (372-443).
SchemaStored(field, input) ==
    CASE SchemaBranch(field) = "select" -> Value("string", input)
      [] SchemaBranch(field) = "boolean" -> Value("boolean", input)
      [] SchemaBranch(field) = "array" ->
            IF IsTruthy(Value("string", input)) THEN Value("array", input) ELSE Absent
      [] OTHER ->
            IF input = "" /\ ~field.required THEN Absent
            ELSE IF field.type \in {"number", "integer"}
                 THEN Value("number", ParseFloat(input))
                 ELSE Value("string", input)

StoredOf(prompter, field, input) ==
    IF prompter = "promptFromSchema" THEN SchemaStored(field, input)
    ELSE Stored(field, input)

\* result[name] = val; an Absent val leaves the map as it is.
Assign(result, name, val) ==
    IF val = Absent THEN result ELSE [result EXCEPT ![name] = val]

\* The next pass of the loop over the fields.
Continue(a, result) ==
    [a EXCEPT !.k = @ + 1, !.fetched = FALSE, !.items = <<>>, !.result = result]

\* A map, as text: its keys.
ObjectText(keys) ==
    CASE keys = {} -> "{}"
      [] keys = {"memo"} -> "{memo}"
      [] keys = {"price"} -> "{price}"
      [] OTHER -> "{memo,price}"

\* Variant of NestedStored: the nested map is stored whatever it holds.
NestedStoredAlways(prompter, keys) == Value("object", ObjectText(keys))

\* What the object branch leaves under the parent's name for the map the
\* recursive call returned: promptForArguments (1167-1170) stores it when it
\* has a key, promptFromSchema (389-391) stores it.
NestedStored(prompter, keys) ==
    IF prompter = "promptForArguments" /\ keys = {} THEN Absent
    ELSE Value("object", ObjectText(keys))

\* The text an input prompt returns for what was typed: Enquirer is given
\* initial: field.default (1122, 1152, 1176; 398, 415), and returns it, or
\* the empty text, when nothing is typed.
Returned(field, input) ==
    IF input = "" /\ field.default # Undefined THEN {"", field.default.v} ELSE {input}

\* The schemas a prompter is called with: addValidatorToArgs is called with
\* the name of one validator argument.
SchemasOf(prompter) ==
    IF prompter = "addValidatorToArgs"
    THEN {<<ValidatorAddress>>, <<ValidatorAddresses>>}
    ELSE Schemas

InitAsk ==
    /\ PipelineIdle
    /\ http = NoCall
    /\ proc = NoRun
    /\ flow = NoFlow
    /\ sig = NoSig
    /\ pages = NoPages
    /\ exec = NoExec
    /\ \E prompter \in Prompters, passed \in BOOLEAN :
         /\ prompter # "promptForArguments" => passed
         /\ \E schema \in SchemasOf(prompter) :
              ask = [state |-> "running", prompter |-> prompter, schema |-> schema,
                     passed |-> passed, k |-> 1, fetched |-> FALSE, items |-> <<>>,
                     shown |-> {}, blank |-> {}, picked |-> "",
                     result |-> [n \in FieldNames |-> Absent]]

Asking == ask.state = "running" /\ ask.k <= Len(ask.schema)

\* The validators are fetched for this field.
Fetches ==
    \/ ask.prompter = "promptForArguments" /\ TakesValidators(ask.schema[ask.k], ask.passed)
    \/ ask.prompter = "addValidatorToArgs"

\* yields.ts 1094, ethers-stake.ts 356: the request for the validators
\* resolves with a list or rejects.
AskValidators ==
    /\ Asking
    /\ Fetches
    /\ ~ask.fetched
    /\ \/ ask' = [ask EXCEPT !.state = "threw"]
       \/ \E items \in ItemLists : ask' = [ask EXCEPT !.fetched = TRUE, !.items = items]
    /\ UNCHANGED pipeline
    /\ UNCHANGED <<http, proc, flow, sig, pages, exec>>

\* yields.ts 1096-1113: the autocomplete over a non-empty list; the user
\* picks one of the choices shown, or cancels; the prompt answers the
\* name of the choice.
AskAutocomplete ==
    /\ Asking
    /\ ask.prompter = "promptForArguments"
    /\ ask.fetched
    /\ Len(ask.items) > 0
    /\ \/ ask' = [ask EXCEPT !.state = "threw"]
       \/ \E n \in 1..Len(ask.items) :
            LET field == ask.schema[ask.k]
                selected == Find(ask.items, Choice(ask.items[n]).name)
                shown == [ask EXCEPT !.shown = @ \cup {field.name},
                                     !.picked = ask.items[n].address]
            IN  ask' = Continue(shown,
                         IF selected # Undefined
                         THEN Assign(ask.result, field.name,
                                     IF field.isArray
                                     THEN Value("array", selected.value.v)
                                     ELSE selected.value)
                         ELSE ask.result)
    /\ UNCHANGED pipeline
    /\ UNCHANGED <<http, proc, flow, sig, pages, exec>>

\* ethers-stake.ts 358-381: the autocomplete is given the choices with name
\* and value, and its answer is stored as it is; which of the two Enquirer
\* answers is the library's matter.  With an empty list nothing is stored.
AddValidatorToArgs ==
    /\ Asking
    /\ ask.prompter = "addValidatorToArgs"
    /\ ask.fetched
    /\ \/ Len(ask.items) = 0 /\ ask' = Continue(ask, ask.result)
       \/ Len(ask.items) > 0 /\ ask' = [ask EXCEPT !.state = "threw"]
       \/ \E n \in 1..Len(ask.items), byName \in BOOLEAN :
            LET field == ask.schema[ask.k]
                answer == IF byName
                          THEN IF ask.items[n].name # "" THEN ask.items[n].name
                               ELSE ask.items[n].address
                          ELSE ask.items[n].address
                shown == [ask EXCEPT !.shown = @ \cup {field.name},
                                     !.picked = ask.items[n].address]
            IN  ask' = Continue(shown,
                         Assign(ask.result, field.name,
                                IF field.name = "validatorAddresses"
                                THEN Value("array", answer)
                                ELSE Value("string", answer)))
    /\ UNCHANGED pipeline
    /\ UNCHANGED <<http, proc, flow, sig, pages, exec>>

\* The field is handled by the if-chain of its prompter.
Chained ==
    /\ Asking
    /\ ask.prompter # "addValidatorToArgs"
    /\ \/ ~Fetches
       \/ ask.fetched /\ Len(ask.items) = 0
    /\ ~(ask.prompter = "promptFromSchema" /\ TakesDefault(ask.schema[ask.k]))

\* part_008 366-369: result[name] = prop.default; continue.
AskDefault ==
    /\ Asking
    /\ ask.prompter = "promptFromSchema"
    /\ TakesDefault(ask.schema[ask.k])
    /\ ask' = Continue(ask, Assign(ask.result, ask.schema[ask.k].name,
                                   ask.schema[ask.k].default))
    /\ UNCHANGED pipeline
    /\ UNCHANGED <<http, proc, flow, sig, pages, exec>>

\* yields.ts 1115-1185, part_008 371-443: the prompt of the field's branch;
\* the user gives an answer the prompt accepts, or cancels.
AskField ==
    /\ Chained
    /\ BranchOf(ask.prompter, ask.schema[ask.k]) # "object"
    /\ \/ ask' = [ask EXCEPT !.state = "threw"]
       \/ \E input \in Answers(ask.prompter, ask.schema[ask.k]) :
            \E response \in Returned(ask.schema[ask.k], input) :
                LET field == ask.schema[ask.k]
                    shown == [ask EXCEPT !.shown = @ \cup {field.name},
                                         !.blank = IF input = "" THEN @ \cup {field.name}
                                                   ELSE @]
                IN  ask' = Continue(shown, Assign(ask.result, field.name,
                                                  StoredOf(ask.prompter, field, response)))
    /\ UNCHANGED pipeline
    /\ UNCHANGED <<http, proc, flow, sig, pages, exec>>

\* yields.ts 1165-1170, part_008 389-391: the recursive call over the
\* sub-fields, each answered with a text its prompt accepts, and what is
\* done with the map it returns; a cancelled prompt throws.
AskObject ==
    /\ Chained
    /\ BranchOf(ask.prompter, ask.schema[ask.k]) = "object"
    /\ \/ ask' = [ask EXCEPT !.state = "threw"]
       \/ LET field == ask.schema[ask.k]
              sub == field.fields
          IN  \E typed \in [1..Len(sub) -> Inputs] :
                /\ \A j \in 1..Len(sub) : typed[j] \in Answers(ask.prompter, sub[j])
                /\ LET keys == {sub[j].name : j \in
                                  {m \in 1..Len(sub) :
                                     StoredOf(ask.prompter, sub[m], typed[m]) # Absent}}
                       shown == [ask EXCEPT
                                   !.shown = @ \cup {field.name},
                                   !.blank = IF \A j \in 1..Len(sub) : typed[j] = ""
                                             THEN @ \cup {field.name} ELSE @]
                   IN  ask' = Continue(shown, Assign(ask.result, field.name,
                                                     NestedStored(ask.prompter, keys)))
    /\ UNCHANGED pipeline
    /\ UNCHANGED <<http, proc, flow, sig, pages, exec>>

\* 1189, 446: return result.
AskReturn ==
    /\ ask.state = "running"
    /\ ask.k > Len(ask.schema)
    /\ ask' = [ask EXCEPT !.state = "returned"]
    /\ UNCHANGED pipeline
    /\ UNCHANGED <<http, proc, flow, sig, pages, exec>>

NextAsk ==
    \/ AskValidators
    \/ AskAutocomplete
    \/ AddValidatorToArgs
    \/ AskDefault
    \/ AskField
    \/ AskObject
    \/ AskReturn

SpecAsk == InitAsk /\ [][NextAsk]_vars

(***************************************************************************)
(* signTransaction (part_008 451-466)                                      *)
(***************************************************************************)

\* enum SigningFormat (part_008 62-67); "undefined" when the transaction
\* declares none.
SigningFormats ==
    {"EVM_TRANSACTION", "EIP712_TYPED_DATA", "SOLANA_TRANSACTION", "COSMOS_TRANSACTION",
     "undefined"}

\* The entries a typed-data payload can hold in its types map.
TypeNames == {"EIP712Domain", "Order", "Agent"}

\* tx.signablePayload: none, a raw transaction, or typed data with its
\* types map (given by its keys).
Payloads ==
    {[kind |-> "absent", types |-> {}], [kind |-> "raw", types |-> {}]}
    \cup {[kind |-> "typedData", types |-> T] : T \in SUBSET TypeNames}

\* Variant of SigningTypes: the types map is passed on as it is.
SigningTypesWhole(types) == types

\* Line 460: const { EIP712Domain: _, ...signingTypes } = types.
SigningTypes(types) == types \ {"EIP712Domain"}

\* The wallet call signTransaction makes for a transaction, or what it
\* throws before any: "Nothing to sign" without a payload, a TypeError when
\* a payload declared as typed data holds no types map to take apart.
WalletCall(format, payload) ==
    IF payload.kind = "absent" THEN [method |-> "throw", types |-> {}]
    ELSE IF format = "EIP712_TYPED_DATA"
         THEN IF payload.kind = "typedData"
              THEN [method |-> "signTypedData", types |-> SigningTypes(payload.types)]
              ELSE [method |-> "throw", types |-> {}]
         ELSE [method |-> "signTransaction", types |-> payload.types]

InitSign ==
    /\ PipelineIdle
    /\ http = NoCall
    /\ proc = NoRun
    /\ flow = NoFlow
    /\ ask = NoAsk
    /\ pages = NoPages
    /\ exec = NoExec
    /\ \E format \in SigningFormats, payload \in Payloads :
         sig = [state |-> "called", format |-> format, payload |-> payload,
                call |-> [method |-> "none", types |-> {}]]

\* Lines 452-465 up to the wallet call.
SignDispatch ==
    /\ sig.state = "called"
    /\ LET call == WalletCall(sig.format, sig.payload)
       IN  sig' = [sig EXCEPT !.call = call,
                              !.state = IF call.method = "throw" THEN "threw" ELSE "signing"]
    /\ UNCHANGED pipeline
    /\ UNCHANGED <<http, proc, flow, ask, pages, exec>>

\* The wallet returns the signature or throws.
SignSettles ==
    /\ sig.state = "signing"
    /\ \E ok \in BOOLEAN :
         sig' = [sig EXCEPT !.state = IF ok THEN "signed" ELSE "threw"]
    /\ UNCHANGED pipeline
    /\ UNCHANGED <<http, proc, flow, ask, pages, exec>>

NextSign ==
    \/ SignDispatch
    \/ SignSettles

SpecSign == InitSign /\ [][NextSign]_vars

(***************************************************************************)
(* fetchAllYields (yields.ts 1312-1327), fetchAllMarkets (part_008         *)
(* 976-994)                                                                *)
(***************************************************************************)

\* const limit = 100.
limit == 100

\* The totals the first page reports.
Totals == {0, 1, 100, 101, 200, 250, 300, 301, 350, 400}

\* Math.ceil(firstPage.total / limit).
TotalPages(total) == (total + limit - 1) \div limit

\* Lines 1321-1323: the offsets of the requests for the remaining pages,
\* in the order of the array; none when there is at most one page.
RemainingOffsets(total) ==
    [n \in 1..(IF TotalPages(total) > 1 THEN TotalPages(total) - 1 ELSE 0) |-> n * limit]

\* Variant of Joined: the pages in the order their responses arrived.
JoinedAsArrived(offsets, arrived) == <<0>> \o arrived

\* Lines 1325-1326: Promise.all resolves with the results in the order of
\* the array of requests; the first page is put in front.
Joined(offsets, arrived) == <<0>> \o offsets

\* The offsets of a sequence, as a set.
Range(seq) == {seq[n] : n \in 1..Len(seq)}

InitPages ==
    /\ PipelineIdle
    /\ http = NoCall
    /\ proc = NoRun
    /\ flow = NoFlow
    /\ ask = NoAsk
    /\ sig = NoSig
    /\ exec = NoExec
    /\ \E fn \in {"fetchAllYields", "fetchAllMarkets"} :
         pages = [state |-> "first", fn |-> fn, total |-> 0, requested |-> {0},
                  offsets |-> <<>>, arrived |-> <<>>, items |-> <<>>]

\* Lines 1314-1323: the first page arrives; with one page (or none) its
\* items are returned, otherwise the remaining requests are all sent.  A
\* rejected first request throws.
FirstPage ==
    /\ pages.state = "first"
    /\ \/ pages' = [pages EXCEPT !.state = "threw"]
       \/ \E total \in Totals :
            IF TotalPages(total) = 1
            THEN pages' = [pages EXCEPT !.state = "returned", !.total = total,
                                        !.items = <<0>>]
            ELSE pages' = [pages EXCEPT !.state = "joining", !.total = total,
                                        !.offsets = RemainingOffsets(total),
                                        !.requested = {0} \cup Range(RemainingOffsets(total))]
    /\ UNCHANGED pipeline
    /\ UNCHANGED <<http, proc, flow, ask, sig, exec>>

\* The response of one of the requests in flight arrives, in any order; a
\* rejected one rejects the Promise.all, and the function throws.
PageArrives ==
    /\ pages.state = "joining"
    /\ \E offset \in Range(pages.offsets) \ Range(pages.arrived) :
         \/ pages' = [pages EXCEPT !.arrived = Append(@, offset)]
         \/ pages' = [pages EXCEPT !.state = "threw"]
    /\ UNCHANGED pipeline
    /\ UNCHANGED <<http, proc, flow, ask, sig, exec>>

\* Lines 1325-1326: every request has resolved; the pages are flattened.
PagesJoin ==
    /\ pages.state = "joining"
    /\ Range(pages.arrived) = Range(pages.offsets)
    /\ pages' = [pages EXCEPT !.state = "returned",
                              !.items = Joined(pages.offsets, pages.arrived)]
    /\ UNCHANGED pipeline
    /\ UNCHANGED <<http, proc, flow, ask, sig, exec>>

NextPages ==
    \/ FirstPage
    \/ PageArrives
    \/ PagesJoin

SpecPages == InitPages /\ [][NextPages]_vars

(***************************************************************************)
(* executeAction (yields.ts 1544-1630), executeTrade and executeAction     *)
(* (part_008 1032-1143, 1172-1234)                                         *)
(***************************************************************************)

Executors == {"yieldsExecuteAction", "executeTrade", "executeAction"}

\* The pipeline an executor hands the action's transactions to:
\* signAndSubmitTransactions in yields.ts, processTransactions in the perps
\* recipe.
PipelineOf(fn) == IF fn = "yieldsExecuteAction" THEN "yields" ELSE "perps"

\* Variant of Declined: the answer to the confirmation is not read.
DeclinedGoesOn == "create"

\* if (!confirm) { console.log("Cancelled\n"); return; } (yields.ts
\* 1594-1597, part_008 1126-1129, 1217-1220).
Declined == "cancelled"

\* Variant of Verified: an action whose metadata is invalid is not executed.
VerifiedOrRefused(metadataValid) == IF metadataValid THEN "process" ELSE "threw"

\* part_008 1135-1142, 1226-1233: metadataValid is written to the console;
\* the next statements are the delay and processTransactions.
Verified(metadataValid) == "process"

\* The action's transactions are those of the response to come; the
\* executor starts by collecting the arguments.
InitExecute ==
    /\ \E fn \in Executors :
         /\ variant = PipelineOf(fn)
         /\ exec = [state |-> "arguments", fn |-> fn, confirm |-> "none",
                    requested |-> FALSE, metadata |-> "none", logged |-> "none"]
    /\ \E n \in 0..MaxTxs : transactions \in [1..n -> TransactionsOf(variant)]
    /\ \A id \in Ids : transactions[id].payload # "nonce"
    /\ Start
    /\ http = NoCall
    /\ proc = NoRun
    /\ flow = NoFlow
    /\ ask = NoAsk
    /\ sig = NoSig
    /\ pages = NoPages

\* yields.ts 1567-1586, part_008 1116-1118: the arguments are prompted for;
\* a cancelled prompt or a failed lookup throws.
ExecArguments ==
    /\ exec.state = "arguments"
    /\ \E ok \in BOOLEAN :
         exec' = [exec EXCEPT !.state = IF ok THEN "confirm" ELSE "threw"]
    /\ UNCHANGED pipeline
    /\ UNCHANGED <<http, proc, flow, ask, sig, pages>>

\* yields.ts 1588-1597, part_008 1120-1129, 1211-1220: the confirmation.
ExecConfirm ==
    /\ exec.state = "confirm"
    /\ \E answer \in {"yes", "no", "cancel"} :
         exec' = IF answer = "cancel" THEN [exec EXCEPT !.state = "threw"]
                 ELSE [exec EXCEPT !.confirm = answer,
                                   !.state = IF answer = "yes" THEN "create" ELSE Declined]
    /\ UNCHANGED pipeline
    /\ UNCHANGED <<http, proc, flow, ask, sig, pages>>

\* yields.ts 1603-1615, part_008 1132, 1223: the request that creates the
\* action; its response holds the transactions and, in the perps recipe,
\* may hold signed metadata, which verifySignedMetadata finds valid or not.
ExecCreate ==
    /\ exec.state = "create"
    /\ \/ exec' = [exec EXCEPT !.requested = TRUE, !.state = "threw"]
       \/ \E metadata \in IF exec.fn = "yieldsExecuteAction" THEN {"absent"}
                          ELSE {"absent", "valid", "invalid"} :
            exec' = [exec EXCEPT !.requested = TRUE, !.metadata = metadata,
                                 !.state = IF metadata = "absent" THEN "process"
                                           ELSE "verify"]
    /\ UNCHANGED pipeline
    /\ UNCHANGED <<http, proc, flow, ask, sig, pages>>

\* part_008 1135-1138, 1226-1229.
ExecVerify ==
    /\ exec.state = "verify"
    /\ exec' = [exec EXCEPT !.logged = IF exec.metadata = "valid" THEN "verified"
                                       ELSE "invalid",
                            !.state = Verified(exec.metadata = "valid")]
    /\ UNCHANGED pipeline
    /\ UNCHANGED <<http, proc, flow, ask, sig, pages>>

\* yields.ts 1619, part_008 1142, 1233: the pipeline runs on the transactions.
ExecProcess ==
    /\ exec.state = "process"
    /\ \/ YieldsLoop
       \/ YieldsSign
       \/ YieldsSubmit
       \/ YieldsPoll
       \/ PerpsLoop
       \/ PerpsSign
       \/ PerpsSubmit
       \/ Return

\* The pipeline has returned (the success line is logged) or thrown.
ExecEnd ==
    /\ exec.state = "process"
    /\ pc \in {"done", "threw"}
    /\ exec' = [exec EXCEPT !.state = IF pc = "done" THEN "done" ELSE "threw"]
    /\ UNCHANGED pipeline
    /\ UNCHANGED <<http, proc, flow, ask, sig, pages>>

NextExecute ==
    \/ ExecArguments
    \/ ExecConfirm
    \/ ExecCreate
    \/ ExecVerify
    \/ ExecProcess
    \/ ExecEnd

SpecExecute == InitExecute /\ [][NextExecute]_vars

(***************************************************************************)
(* Properties                                                              *)
(***************************************************************************)

Yields == variant \in {"yields", "yieldsOld"}
Signers == variant \in {"signers", "signersBalance"}

\* The steps the wallet was asked to sign.
SignedIds == {id \in Ids : signCount[id] > 0}

\* The steps before `id` that were submitted.
SubmittedBefore(id) == {j \in 1..(id - 1) : submitCount[j] > 0}

Latest(S) == CHOOSE j \in S : \A k \in S : k <= j

\* C1: a step that is already CONFIRMED or BROADCASTED when the pipeline
\* reaches it is never passed to the wallet and never submitted, in any
\* recipe.
C1_SettledNeverSignedNorSubmitted ==
    \A id \in Ids :
        AlreadySettled(transactions[id]) =>
            signCount[id] = 0 /\ submitCount[id] = 0

\* C2: in one run each transaction id is signed at most once and submitted
\* at most once, whatever the API answers.
C2_SignedAndSubmittedAtMostOnce ==
    \A id \in Ids : signCount[id] <= 1 /\ submitCount[id] <= 1

\* A step prepared at the third attempt, signed, submitted, and reported
\* FAILED by a status poll, with another step behind it.
C2_Witness ==
    /\ i = 2 /\ i \in Ids
    /\ patchCount[1] = maxPrepareAttempts
    /\ signCount[1] = 1 /\ submitCount[1] = 1
    /\ lastStatus = "FAILED"

\* C3: a step whose status is SKIPPED is never passed to the signer, in any
\* pipeline variant.
C3_SkippedNeverSigned ==
    \A id \in Ids :
        transactions[id].status = "SKIPPED" => signCount[id] = 0

\* The nonce-carrying steps signed so far, in order: consecutive pairs.
NoncePairs == 1..(Len(signedNonces) - 1)

\* C4 as stated: the signed nonce strictly increases from each signed step
\* to the next for all server-supplied payloads, and the local offset counts
\* the signed steps.
C4_SignedNonceStrictlyIncreases ==
    variant = "yields" =>
        /\ \A k \in NoncePairs : signedNonces[k].nonce < signedNonces[k + 1].nonce
        /\ nonceOffset = Cardinality(SignedIds)

\* C4 amended: the nonce that is signed is the server's nonce plus the number
\* of steps signed before it in the run (skipped steps do not count, every
\* signed step counts once); so it strictly increases from one signed step
\* to the next whenever the server's nonce for the later step is not smaller
\* than for the earlier one.
C4_SignedNonceIsServerNoncePlusOffset ==
    variant = "yields" =>
        /\ nonceOffset = Cardinality(SignedIds)
        /\ \A k \in 1..Len(signedNonces) :
             signedNonces[k].nonce =
                 transactions[signedNonces[k].id].nonce
                 + Cardinality({j \in SignedIds : j < signedNonces[k].id})
        /\ \A k \in NoncePairs :
             transactions[signedNonces[k].id].nonce
                 <= transactions[signedNonces[k + 1].id].nonce
               => signedNonces[k].nonce < signedNonces[k + 1].nonce

\* Two steps with the same server nonce were signed; the second carries the
\* nonce shifted by one.
C4_Witness ==
    /\ variant = "yields"
    /\ Len(signedNonces) = 2
    /\ transactions[signedNonces[1].id].nonce = transactions[signedNonces[2].id].nonce
    /\ signedNonces[2].nonce = signedNonces[1].nonce + 1
    /\ nonceOffset = 2

\* C5: in the stakekit-signers staking pipeline a step on another network
\* than the previously submitted step is neither prepared nor signed before
\* the wait condition (delay, or locked balance reached) has completed.
C5_CrossChainWaitBeforePrepare ==
    (Signers /\ i \in Ids /\ SubmittedBefore(i) # {}) =>
        ((/\ transactions[Latest(SubmittedBefore(i))].network # transactions[i].network
          /\ \/ patchCount[i] > 0
             \/ signCount[i] > 0
             \/ pc \in {"gas", "prepare", "sign", "submit", "poll"})
           => waited)

\* The second step, on another network than the first, was signed after the
\* balance wait completed.
C5_Witness ==
    /\ variant = "signersBalance"
    /\ i = 2 /\ i \in Ids
    /\ submitCount[1] = 1
    /\ transactions[1].network # transactions[2].network
    /\ waited
    /\ signCount[2] = 1

\* C6: when signing or submitting step i throws, the pipeline stops: the
\* call is not made again and no later step is prepared, signed or submitted.
C6_SignOrSubmitFailureIsFatal ==
    error \in {"sign", "submit"} =>
        /\ pc = "threw"
        /\ i \in Ids
        /\ signCount[i] <= 1 /\ submitCount[i] <= 1
        /\ error = "sign" => submitCount[i] = 0
        /\ \A j \in Ids :
             j > i => patchCount[j] = 0 /\ signCount[j] = 0 /\ submitCount[j] = 0

\* The submission of the first step threw with a processable step behind it.
C6_Witness ==
    /\ error = "submit"
    /\ pc = "threw"
    /\ i = 1 /\ Len(transactions) > 1
    /\ transactions[2].status = "CREATED"
    /\ transactions[2].payload # "absent"

\* C7: per step the prepare request is attempted at most 3 times, never
\* again after an attempt succeeded, and signing starts only after a
\* successful attempt.
C7_PrepareAtMostThreeTimesThenSign ==
    variant = "signers" =>
        /\ \A id \in Ids : patchCount[id] <= maxPrepareAttempts
        /\ (i \in Ids /\ pc # "loop") =>
             /\ (signCount[i] > 0 \/ pc \in {"sign", "submit", "poll"})
                  => unsignedTransaction = "set"
             /\ unsignedTransaction = "set" => patchCount[i] = retry + 1
             /\ unsignedTransaction = "undefined" => patchCount[i] = retry

\* A step signed after two failed attempts and a third, successful one.
C7_Witness ==
    /\ variant = "signers"
    /\ i \in Ids
    /\ retry = 2
    /\ patchCount[i] = maxPrepareAttempts
    /\ unsignedTransaction = "set"
    /\ signCount[i] = 1

\* C8: when all 3 preparation attempts of a step fail the pipeline raises an
\* error and neither that step nor a later one is signed or submitted.
C8_ExhaustedPreparationIsFatal ==
    (variant = "signers" /\ retry = maxPrepareAttempts) =>
        /\ pc = "threw"
        /\ error = "prepare"
        /\ \A j \in Ids :
             j >= i => signCount[j] = 0 /\ submitCount[j] = 0

\* Three failed attempts on the first step, with a step to process behind it.
C8_Witness ==
    /\ variant = "signers"
    /\ retry = maxPrepareAttempts
    /\ patchCount[1] = maxPrepareAttempts
    /\ i = 1 /\ Len(transactions) > 1
    /\ transactions[2].status = "CREATED"

\* C9: the status polling of a step ends at the first poll that returns
\* CONFIRMED or FAILED (no further poll is issued for the step), and
\* otherwise when the bounded number of attempts is used up: while the
\* polling of a step is still going on, no poll has returned CONFIRMED or
\* FAILED and attempts are left.
C9_PollingEndsAtConfirmedOrFailed ==
    pc = "poll" =>
        /\ lastStatus \notin {"CONFIRMED", "FAILED"}
        /\ attempts < maxAttempts

\* C10: in signAndSubmitTransactions, when the 60 polls of a step end
\* without a confirmation the warning is logged and the loop goes on with
\* the next step; nothing is raised.
C10_TimeoutContinues ==
    Yields =>
        /\ (attempts = maxAttempts /\ ~confirmed) =>
              /\ warned
              /\ pc \in {"loop", "done"}
              /\ error = "none"
              /\ i - 1 \in Ids /\ submitCount[i - 1] = 1
        /\ warned => (attempts = maxAttempts /\ ~confirmed)

\* The first step timed out and the loop stands at a second step that it
\* will sign.
C10_Witness ==
    /\ variant = "yields"
    /\ warned
    /\ pc = "loop"
    /\ i = 2 /\ i \in Ids
    /\ ~AlreadySettled(transactions[2])
    /\ transactions[2].payload # "absent"

Terminated == pc \in {"done", "threw"}

\* C11 as stated: provided every call returns, the pipeline of every recipe
\* terminates, whatever statuses the polls report.
C11_EveryPipelineTerminates == <>Terminated

\* C11 amended: signAndSubmitTransactions and processTransactions terminate
\* for every list and every sequence of status responses, a step being
\* polled at most maxAttempts times; the status loops of the stakekit-signers
\* and ethers staking recipes have no bound and go on for as long as the
\* status is neither CONFIRMED nor FAILED.
C11_BoundedPollingTerminates ==
    /\ [](attempts <= maxAttempts)
    /\ (variant \in {"yields", "yieldsOld", "perps"}) => <>Terminated

\* A run of signAndSubmitTransactions that ended after a step was polled
\* maxAttempts times without ever being reported CONFIRMED or FAILED.
C11_Witness ==
    /\ Yields
    /\ pc = "done"
    /\ attempts = maxAttempts
    /\ lastStatus = "PENDING"
    /\ warned

\* C12 as stated: in every recipe, a step for which the user selected the
\* "custom" gas mode is neither signed nor submitted, nothing is thrown out
\* of the pipeline for it, and the loop goes on to the steps after it.
C12_CustomSkipsOnlyTheStep ==
    \A id \in customSteps :
        /\ signCount[id] = 0 /\ submitCount[id] = 0
        /\ error # "aborted"
        /\ i > id

\* C12 amended: this holds in the current stakekit-signers staking recipe and
\* in the ethers staking recipe, where "custom" is a `continue`.  In the
\* balance-polling stakekit-signers recipe "custom" is a `throw null`: the
\* step is neither signed nor submitted, and neither is any step after it.
C12_CustomSkipsOrAborts ==
    \A id \in customSteps :
        /\ signCount[id] = 0 /\ submitCount[id] = 0
        /\ IF variant = "signersBalance"
           THEN /\ pc = "threw" /\ error = "aborted" /\ i = id
                /\ \A j \in Ids :
                     j > id => patchCount[j] = 0 /\ signCount[j] = 0 /\ submitCount[j] = 0
           ELSE error # "aborted" /\ i > id

\* "custom" was picked for the first step of the ethers recipe, after its
\* first preparation; the second step was then prepared twice, signed and
\* submitted.
C12_Witness ==
    /\ variant = "ethersStake"
    /\ customSteps = {1}
    /\ patchCount = <<1, 2>>
    /\ signCount = <<0, 1>>
    /\ submitCount = <<0, 1>>

\* C13: on the list [t1 ethereum CREATED, t2 ethereum SKIPPED, t3 polygon
\* CREATED] nothing is ever done with t2; t3 is prepared only after t1 was
\* submitted and the cross-chain wait completed; and a run that ends with no
\* call having thrown and no "custom" gas mode picked has prepared, signed
\* and submitted t1 and t3, once each: exactly two submissions.
C13_SampleRun ==
    /\ patchCount[2] = 0 /\ signCount[2] = 0 /\ submitCount[2] = 0
    /\ (patchCount[3] > 0 /\ customSteps = {}) =>
          /\ submitCount[1] = 1
          /\ i >= 3 /\ waited
    /\ (pc = "done" /\ error = "none" /\ customSteps = {}) =>
          /\ \A id \in {1, 3} : patchCount[id] >= 1 /\ signCount[id] = 1
          /\ submitCount = <<1, 0, 1>>

\* The run ended with no failed call: t1 and t3 were each prepared once,
\* signed and submitted, t3 after the wait.
C13_Witness ==
    /\ transactions = SampleTransactions
    /\ variant = "signers"
    /\ pc = "done" /\ error = "none" /\ customSteps = {}
    /\ patchCount = <<1, 0, 1>>
    /\ signCount = <<1, 0, 1>>
    /\ submitCount = <<1, 0, 1>>
    /\ waited
    /\ lastTx = "polygon"

\* The steps for which a prepare, sign or submit call is issued by the step
\* from the current state to the next.
CalledSteps ==
    {j \in Ids : \/ patchCount'[j] # patchCount[j]
                 \/ signCount'[j] # signCount[j]
                 \/ submitCount'[j] # submitCount[j]}

\* C14: steps are processed in list order and never overlap: every prepare,
\* sign or submit call is for the step the loop stands at, and the loop only
\* moves forward, one step at a time; so no call for step j is issued before
\* the processing of the steps before j has ended, and none for them after.
C14_StepsInListOrder ==
    [][/\ CalledSteps \subseteq {i}
       /\ i' \in {i, i + 1}]_vars

\* Both steps of a two-step list were signed and submitted by
\* signAndSubmitTransactions, the second while the loop stood at it.
C14_Witness ==
    /\ variant = "yields"
    /\ i = 2
    /\ signCount = <<1, 1>>
    /\ submitCount = <<1, 1>>
    /\ pc = "poll"

\* C15: every HTTP helper rejects whenever the response status is not 2xx,
\* with an error that carries the HTTP status; it never resolves with the
\* error body.
C15_NonOkRejectsWithStatus ==
    (http.state \in {"resolved", "rejected"} /\ ~Ok(http.response)) =>
        /\ http.state = "rejected"
        /\ http.error.status = http.response.status

\* C16: a script started without a required environment variable exits
\* with code 1 after printing a diagnostic, before any HTTP request is issued
\* and before any prompt is shown.
C16_MissingEnvExitsAtStartup ==
    proc.missing # {} =>
        /\ proc.stage \in {"none", "startup", "exited"}
        /\ ~proc.requested /\ ~proc.prompted
        /\ proc.exited =>
             /\ proc.exitCode = 1
             /\ "Error: environment variables are required" \in proc.log

\* C17: when main ends with an unrecoverable error (API error, signing
\* error, exhausted preparation retries) the error is logged and the process
\* ends with a non-zero exit code.
C17_FatalErrorExitsNonZero ==
    (proc.exited /\ proc.outcome \in Truthy) =>
        /\ proc.log # {}
        /\ proc.exitCode # 0

\* C18: in the scripts whose handler tells the two apart, a run that ends on
\* a cancelled prompt or a thrown null is reported as "Script was aborted."
\* and not as a failure, and one that ends on a truthy error is reported as
\* a failure and not as aborted: every rejection of main reaches the handler.
C18_AbortDistinguishedFromFailure ==
    (proc.exited /\ (Launch(proc.recipe) = "syncTry" \/ MainCatch(proc.recipe) = "distinguishes")) =>
        /\ proc.outcome \in Falsy => proc.log = {"Script was aborted."}
        /\ proc.outcome \in Truthy => proc.log = {"Script failed"}

\* C19: neither the mnemonic nor the private key derived from it is ever
\* put into an HTTP request (URL, header or body); of what comes from the
\* wallet, only addresses and signed transactions are sent.
C19_SecretsNeverSent ==
    /\ flow.sent \cap Secrets = {}
    /\ \A t \in flow.sent :
         t \in WalletData \/ t \notin {"walletType", "index", "wallet", "walletOptions"}

\* The stakekit-signers main has created an action with additional
\* addresses and submitted a signed transaction.
C19_Witness ==
    /\ flow.recipe = "signersStake"
    /\ flow.additional
    /\ {"address", "additionalAddresses", "amount", "signedTransaction"} \subseteq flow.sent
    /\ flow.at = 0

\* C20: for a schema with the required fields amount (number) and
\* validatorAddress (optionsRef), the map promptForArguments returns holds a
\* number (never NaN) under amount and a string under validatorAddress,
\* whatever the user answered.
C20_BothKeysTyped ==
    (/\ ask.state = "returned"
     /\ \E j \in 1..Len(ask.schema) : ask.schema[j] = Amount
     /\ \E j \in 1..Len(ask.schema) : ask.schema[j] = ValidatorAddress) =>
        /\ ask.result["amount"].type = "number"
        /\ ask.result["amount"].v # "NaN"
        /\ ask.result["validatorAddress"].type = "string"

\* The call returned after the user typed an amount and picked a validator
\* from the fetched list.
C20_Witness ==
    /\ ask.state = "returned"
    /\ ask.passed
    /\ ask.result["amount"] = Value("number", "12")
    /\ ask.result["validatorAddress"] = Value("string", "0xB")

\* The fields of the schema the call was made with.
AskedFields == {ask.schema[j] : j \in 1..Len(ask.schema)}

\* C21: in the map a prompter returns, an optional field (one that declares
\* no default) the user left blank has no entry, and no optional field
\* holds the empty string, whatever the field's kind.
C21_BlankOptionalOmitted ==
    ask.state = "returned" =>
        \A field \in AskedFields :
            (~field.required /\ field.default = Undefined) =>
                /\ field.name \in ask.blank => ask.result[field.name] = Absent
                /\ ask.result[field.name] # Value("string", "")

\* C22: an optional field that declares a default holds that default in the
\* returned map, and no prompt was shown for it.
C22_DefaultWithoutPrompt ==
    ask.state = "returned" =>
        \A field \in AskedFields :
            (~field.required /\ field.default # Undefined) =>
                /\ field.name \notin ask.shown
                /\ ask.result[field.name] = field.default

\* C23: the map returned for a nested object field is stored under the
\* parent's name only when it has a key; an empty nested map leaves the
\* parent key absent.
C23_EmptyNestedOmitted ==
    ask.state = "returned" =>
        \A field \in AskedFields :
            field.type = "object" =>
                /\ ask.result[field.name] # Value("object", "{}")
                /\ field.name \in ask.blank => ask.result[field.name] = Absent

\* C24: every number stored in the returned map lies within the minimum and
\* the maximum its field declares, a bound of 0 included.
C24_StoredWithinBounds ==
    ask.state = "returned" =>
        \A field \in AskedFields :
            ask.result[field.name].type = "number" =>
                /\ field.minimum # Undefined =>
                     NumberOf(ask.result[field.name].v) >= NumberOf(ParseFloat(field.minimum.v))
                /\ field.maximum # Undefined =>
                     NumberOf(ask.result[field.name].v) <= NumberOf(ParseFloat(field.maximum.v))

\* C25: after the user picked a validator from the fetched list, the field
\* holds the address of the validator picked: a string for validatorAddress,
\* a one-element array for validatorAddresses.
C25_PickedAddressStored ==
    (ask.state = "returned" /\ ask.picked # "") =>
        /\ ValidatorAddress \in AskedFields =>
             ask.result["validatorAddress"] = Value("string", ask.picked)
        /\ ValidatorAddresses \in AskedFields =>
             ask.result["validatorAddresses"] = Value("array", ask.picked)

\* C26: signTransaction signs a payload declared EIP712_TYPED_DATA as typed
\* data, with the payload's types map less exactly its EIP712Domain entry,
\* and a payload of any other format as a raw transaction.
C26_DispatchOnFormat ==
    (sig.state \in {"signing", "signed"}) =>
        IF sig.format = "EIP712_TYPED_DATA"
        THEN /\ sig.call.method = "signTypedData"
             /\ sig.call.types = sig.payload.types \ {"EIP712Domain"}
        ELSE sig.call.method = "signTransaction"

\* A typed-data payload that declares EIP712Domain among its types was
\* signed.
C26_Witness ==
    /\ sig.state = "signed"
    /\ sig.format = "EIP712_TYPED_DATA"
    /\ sig.payload.types = {"EIP712Domain", "Order"}
    /\ sig.call = [method |-> "signTypedData", types |-> {"Order"}]

\* The offsets of the pages below a total; offset 0 is always asked for.
PageOffsets(total) == {0} \cup {o \in 0..total : o % limit = 0 /\ o < total}

\* C27: fetchAllYields and fetchAllMarkets ask for one page per offset 0,
\* 100, 200, ... below the reported total (offset 0 at least), return only
\* when every request has resolved, and return the pages in page order
\* whatever order the responses arrived in.
C27_PagesJoinedInOrder ==
    /\ pages.state \in {"joining", "returned"} =>
         pages.requested = PageOffsets(pages.total)
    /\ pages.state = "returned" =>
         /\ Range(pages.arrived) \cup {0} = pages.requested
         /\ Len(pages.items) = Cardinality(pages.requested)
         /\ \A n \in 1..Len(pages.items) : pages.items[n] = (n - 1) * limit

\* Three pages were returned although the page at 200 arrived before the
\* page at 100.
C27_Witness ==
    /\ pages.state = "returned"
    /\ pages.total = 250
    /\ pages.arrived = <<200, 100>>
    /\ pages.items = <<0, 100, 200>>

C29_VerificationDoesNotGate ==
    [][exec.state = "verify" =>
          /\ exec'.state = "process"
          /\ exec'.logged = (IF exec.metadata = "valid" THEN "verified" ELSE "invalid")
          /\ UNCHANGED pipeline]_vars

\* An action whose signed metadata was found invalid had its transaction
\* signed and submitted.
C29_Witness ==
    /\ exec.state = "done"
    /\ exec.logged = "invalid"
    /\ Len(transactions) = 1
    /\ signCount = <<1>>
    /\ submitCount = <<1>>

\* The pipeline has not looked at a transaction yet.
Untouched ==
    /\ pc = "loop"
    /\ i = 1
    /\ \A id \in Ids : signCount[id] = 0 /\ submitCount[id] = 0

\* C30: in the yields and perps recipes the action-creation request is sent
\* and transactions are signed and submitted only after the user answered
\* the confirmation with yes; after a no, no request was sent and nothing
\* was signed or submitted.
C30_NothingWithoutConsent ==
    /\ (exec.requested \/ ~Untouched) => exec.confirm = "yes"
    /\ exec.confirm = "no" => (exec.state = "cancelled" /\ ~exec.requested /\ Untouched)

\* The user declined, and the executor returned with nothing sent or signed
\* for an action of two transactions.
C30_Witness ==
    /\ exec.state = "cancelled"
    /\ exec.confirm = "no"
    /\ ~exec.requested
    /\ Len(transactions) = 2
    /\ Untouched

====
